---- MODULE Spec2Model ----
(***************************************************************************)
(* Model of package uuid (github.com/agext/uuid): the process-wide         *)
(* generator state (clockSeqAndNode, clockSeq, nodeRand, the random pool   *)
(* and its cursor, the mutex), the operations SetNodeId, NodeId, New and   *)
(* NewCrypto as called by concurrent callers, and the UUID accessors.      *)
(*                                                                         *)
(* Machine words wider than TLC's integers are kept as big-endian byte     *)
(* arrays: a function from 0..n-1 to 0..255 whose index 0 is the most      *)
(* significant byte, as encoding/binary.BigEndian lays them out.  A uint64 *)
(* has 8 bytes, a uint32 has 4, a uint16 has 2.  Bit k of a word is its    *)
(* bit of weight 2^k.                                                      *)
(***************************************************************************)
EXTENDS Integers, Sequences, FiniteSets, TLC

(***************************************************************************)
(* Bounds of the model.                                                    *)
(***************************************************************************)
\* number of calls started in one behaviour of Spec
MaxCalls == 3

\* the concurrent callers (goroutines)
Callers == {1, 2}
NoCaller == 0

(***************************************************************************)
(* Byte and word arithmetic.                                               *)
(***************************************************************************)
RECURSIVE BitAnd(_, _)
BitAnd(a, b) ==
    IF a = 0 \/ b = 0 THEN 0
    ELSE IF a = b THEN a
    ELSE (a % 2) * (b % 2) + 2 * BitAnd(a \div 2, b \div 2)

RECURSIVE BitOr(_, _)
BitOr(a, b) ==
    IF a = 0 THEN b
    ELSE IF b = 0 \/ a = b THEN a
    ELSE (IF a % 2 = 1 \/ b % 2 = 1 THEN 1 ELSE 0) + 2 * BitOr(a \div 2, b \div 2)

WLen(w) == Cardinality(DOMAIN w)

\* byte i of word w; fill outside the word
WByte(w, i, fill) == IF i \in DOMAIN w THEN w[i] ELSE fill

\* bit k (weight 2^k) of word w
WBit(w, k) == (w[WLen(w) - 1 - (k \div 8)] \div (2 ^ (k % 8))) % 2

\* a & b, a | b on words of equal width
WAnd(a, b) == [i \in DOMAIN a |-> BitAnd(a[i], b[i])]
WOr(a, b) == [i \in DOMAIN a |-> BitOr(a[i], b[i])]

\* a << s, keeping the width of a: bits shifted out at the top are lost
WShl(a, s) ==
    LET q == s \div 8
        r == s % 8
    IN  [i \in DOMAIN a |->
            ((WByte(a, i + q, 0) * (2 ^ r)) % 256)
            + (WByte(a, i + q + 1, 0) \div (2 ^ (8 - r)))]

\* a >> s with the byte fill shifted in at the top (0: logical shift)
WShrFill(a, s, fill) ==
    LET q == s \div 8
        r == s % 8
    IN  [i \in DOMAIN a |->
            (WByte(a, i - q, fill) \div (2 ^ r))
            + ((WByte(a, i - q - 1, fill) * (2 ^ (8 - r))) % 256)]

\* a >> s on an unsigned word
WShr(a, s) == WShrFill(a, s, 0)

\* a >> s on a signed word (arithmetic: the sign bit is shifted in)
WSar(a, s) == WShrFill(a, s, IF a[0] >= 128 THEN 255 ELSE 0)

\* conversion between unsigned integer types: truncate or zero-extend to n bytes
WConv(a, n) == [i \in 0..(n - 1) |-> WByte(a, i + WLen(a) - n, 0)]

\* the n-byte word of a natural number below 2^31, and back
WOfNat(v, n) ==
    [i \in 0..(n - 1) |->
        IF n - 1 - i > 3 THEN 0 ELSE (v \div (256 ^ (n - 1 - i))) % 256]

RECURSIVE WNatUpTo(_, _)
WNatUpTo(w, i) == IF i < 0 THEN 0 ELSE 256 * WNatUpTo(w, i - 1) + w[i]
WNat(w) == WNatUpTo(w, WLen(w) - 1)

WZero(n) == [i \in 0..(n - 1) |-> 0]
WIsZero(w) == \A i \in DOMAIN w : w[i] = 0

\* b[lo:hi] as a word of hi-lo bytes
Slice(b, lo, hi) == [i \in 0..(hi - lo - 1) |-> b[lo + i]]

\* copy of word w into byte array b at offset at
PutAt(b, at, w) ==
    [i \in DOMAIN b |-> IF (i - at) \in DOMAIN w THEN w[i - at] ELSE b[i]]

\* a byte array from a tuple of bytes
Bytes(t) == [i \in 0..(Len(t) - 1) |-> t[i + 1]]

\* bytes 0..i of a + b + carry, as a tuple: the addition runs from byte i up
RECURSIVE AddUpTo(_, _, _, _)
AddUpTo(a, b, i, carry) ==
    IF i < 0 THEN <<>>
    ELSE LET sum == a[i] + b[i] + carry
         IN  Append(AddUpTo(a, b, i - 1, sum \div 256), sum % 256)

\* a + b modulo 2^(8n)
WAdd(a, b) == Bytes(AddUpTo(a, b, WLen(a) - 1, 0))

\* two's complement negation
WNeg(a) == WAdd([i \in DOMAIN a |-> 255 - a[i]], WOfNat(1, WLen(a)))

\* bytes i.. of the quotient of unsigned a by d < 2^15, as a tuple: the long
\* division runs from byte i down, rem the remainder carried in
RECURSIVE DivFrom(_, _, _, _)
DivFrom(a, d, i, rem) ==
    IF i \notin DOMAIN a THEN <<>>
    ELSE LET cur == rem * 256 + a[i]
         IN  <<cur \div d>> \o DivFrom(a, d, i + 1, cur % d)

\* unsigned a / d
WUDiv(a, d) == Bytes(DivFrom(a, d, 0, 0))

\* signed a / d, truncated toward zero as Go's integer division
WSDiv(a, d) ==
    IF a[0] >= 128 THEN WNeg(WUDiv(WNeg(a), d)) ELSE WUDiv(a, d)

\* a - b modulo 2^(8n)
WSub(a, b) == WAdd(a, WNeg(b))

\* bytes 0..i of a * k + carry for 0 < k <= 1000, as a tuple: the
\* multiplication runs from byte i up
RECURSIVE MulUpTo(_, _, _, _)
MulUpTo(a, k, i, carry) ==
    IF i < 0 THEN <<>>
    ELSE LET prod == a[i] * k + carry
         IN  Append(MulUpTo(a, k, i - 1, prod \div 256), prod % 256)

\* a * k modulo 2^(8n)
WMul(a, k) == Bytes(MulUpTo(a, k, WLen(a) - 1, 0))

\* the n-byte word of an integer of absolute value below 2^31, and the
\* integer of a word of absolute value below 2^31
WOfInt(v, n) == IF v < 0 THEN WNeg(WOfNat(-v, n)) ELSE WOfNat(v, n)
WInt(w) == IF w[0] >= 128 THEN -WNat(WConv(WNeg(w), 4)) ELSE WNat(WConv(w, 4))

\* a / 1e9 and a * 1e9 in int64, 1e9 being 1000 * 1000 * 1000
WDiv1e9(a) == WSDiv(WSDiv(WSDiv(a, 1000), 1000), 1000)
WMul1e9(a) == WMul(WMul(WMul(a, 1000), 1000), 1000)

(***************************************************************************)
(* Program constants.                                                      *)
(***************************************************************************)
gregorianEpoch == Bytes(<<\h01, \hB2, \h1D, \hD2, \h13, \h81, \h40, \h00>>)
randBufCap == 256

(***************************************************************************)
(* Inputs: what the environment can hand to the program.                   *)
(***************************************************************************)
\* the 8 bytes crypto/rand delivers to init
InitReads ==
    { Bytes(<<\hff, \hfe, \ha5, \h5a, \hc3, \h0f, \h12, \h34>>) }

\* arguments of SetNodeId (uint32)
NodeIdArgs ==
    { Bytes(<<\h3f, \hff, \hff, \hff>>),
      Bytes(<<\h6a, \h55, \hc3, \h0f>>),
      Bytes(<<\h95, \haa, \h3c, \hf0>>) }

\* values mrand.Int31n(0x10000) returns
PrngVals == {\h0000, \hbeef}

\* what one rand.Read of a 4-byte slice delivers: its first n bytes, n in 0..4
CryptoReads ==
    { <<>>, <<\hff, \hff>>, <<\h1f, \hfe, \hbe, \hef>> }

\* readings of timeNow().UTC().UnixNano() (int64), in two different 100ns ticks
TimeVals ==
    { Bytes(<<\h18, \hd5, \h3c, \h2a, \h7f, \h01, \h9c, \h00>>),
      Bytes(<<\h18, \hd5, \h3c, \h2a, \h7f, \h01, \h9c, \h64>>) }

(***************************************************************************)
(* State.                                                                  *)
(***************************************************************************)
VARIABLES
    randBuf,          \* the pool's backing array, randBufCap bytes
    randBufOffset,    \* the pool cursor
    clockSeqAndNode,  \* the packed state (uint64)
    clockSeq,         \* uint16
    nodeRand,         \* uint16
    csanMutex,        \* the caller holding the lock, or NoCaller
    pc,               \* each caller's position in its call
    frame,            \* each caller's function, argument and locals
    ret,              \* the call that returned last: its caller and what it returned
    panicked,         \* a run-time panic (slice out of range) has happened
    lastSet,          \* the argument of the SetNodeId that last updated the state
    lastGen,          \* the generator that last updated the state: bytes 8..15 it built,
                      \* the number of bytes its read delivered, the cursor it read at
                      \* and the cursor it took its 4 bytes at
    calls,            \* number of calls started
    marked,           \* an identifier New returned earlier, kept for comparison
    probe,            \* an identifier handed to the accessors, and what they returned
    conv,             \* a call of a constructor, formatter or parser: its name, its
                      \* arguments, the byte arrays it works on and what it returned
    source            \* the cryptographic source as NewCrypto uses it: the number of
                      \* rand.Read calls made and of identifiers returned

vars == <<randBuf, randBufOffset, clockSeqAndNode, clockSeq, nodeRand, csanMutex,
          pc, frame, ret, panicked, lastSet, lastGen, calls, marked, probe, conv,
          source>>

shared == <<randBuf, randBufOffset, clockSeqAndNode, clockSeq, nodeRand>>

(***************************************************************************)
(* The program's pure computations.                                        *)
(***************************************************************************)
\* mutant of InitVariantByte: the random bits are not masked off
InitVariantByteNoMask(b) == BitOr(b, 32)

\* init: the variant inside the clock sequence,
\* randBuf[0] = uint8(randBuf[0]&0x1f | 1<<5)
InitVariantByte(b) == BitOr(BitAnd(b, \h1f), 32)

\* init: the 'local' and 'multicast' bits,
\* randBuf[2] = uint8((randBuf[2] << 2) | 0x03)
InitNodeByte(b) == BitOr((b * 4) % 256, \h03)

\* the first 8 pool bytes as init leaves them, given the 8 bytes read
InitBuf(rd) ==
    [i \in 0..7 |->
        IF i = 0 THEN InitVariantByte(rd[0])
        ELSE IF i = 2 THEN InitNodeByte(rd[2])
        ELSE rd[i]]

\* clockSeq = uint16((clockSeqAndNode >> 48) & 0x1fff)
InitClockSeq(csan) ==
    WNat(WConv(WAnd(WShr(csan, 48), Bytes(<<0, 0, 0, 0, 0, 0, \h1f, \hff>>)), 2))

\* nodeRand = uint16(clockSeqAndNode & 0xffff)
InitNodeRand(csan) ==
    WNat(WConv(WAnd(csan, Bytes(<<0, 0, 0, 0, 0, 0, \hff, \hff>>)), 2))

\* mutant of SetNodeIdPack: the mask does not keep the low 16 node bits
SetNodeIdPackDropsLow(csan, nodeId) ==
    WOr(WAnd(csan, Bytes(<<\hff, \hff, \h03, \h00, \h00, \h00, \h00, \h00>>)),
        WShl(WConv(WOr(WShl(WAnd(nodeId, Bytes(<<\h3f, \h00, \h00, \h00>>)), 2),
                       WAnd(nodeId, Bytes(<<\h00, \hff, \hff, \hff>>))),
                   8),
             16))

\* mutant of SetNodeIdPack: the mask does not keep the 'local' and 'multicast' bits
SetNodeIdPackNoLocal(csan, nodeId) ==
    WOr(WAnd(csan, Bytes(<<\hff, \hff, \h00, \h00, \h00, \h00, \hff, \hff>>)),
        WShl(WConv(WOr(WShl(WAnd(nodeId, Bytes(<<\h3f, \h00, \h00, \h00>>)), 2),
                       WAnd(nodeId, Bytes(<<\h00, \hff, \hff, \hff>>))),
                   8),
             16))

\* SetNodeId's update of the packed state:
\* (clockSeqAndNode & 0xffff03000000ffff) |
\*     (uint64(((nodeId&0x3f000000)<<2)|(nodeId&0x00ffffff)) << 16)
SetNodeIdPack(csan, nodeId) ==
    WOr(WAnd(csan, Bytes(<<\hff, \hff, \h03, \h00, \h00, \h00, \hff, \hff>>)),
        WShl(WConv(WOr(WShl(WAnd(nodeId, Bytes(<<\h3f, \h00, \h00, \h00>>)), 2),
                       WAnd(nodeId, Bytes(<<\h00, \hff, \hff, \hff>>))),
                   8),
             16))

\* mutant of SetNodeIdErr: only bit 31 is looked at
SetNodeIdErrBit31(nodeId) == ~WIsZero(WShr(nodeId, 31))

\* SetNodeId's error condition: nodeId>>30 != 0
SetNodeIdErr(nodeId) == ~WIsZero(WShr(nodeId, 30))

\* mutant of NodeIdBits: the 30 bits are read as one field, bits 30:1 of nodeId
NodeIdBitsContig(nodeId) ==
    WConv(WAnd(WShr(nodeId, 1), Bytes(<<0, 0, 0, 0, \h3f, \hff, \hff, \hff>>)), 4)

\* uint32((nodeId & 0x00ffffff) | ((nodeId & 0xfc000000) >> 2)) of a uint64 nodeId
NodeIdBits(nodeId) ==
    WConv(WOr(WAnd(nodeId, Bytes(<<0, 0, 0, 0, \h00, \hff, \hff, \hff>>)),
              WShr(WAnd(nodeId, Bytes(<<0, 0, 0, 0, \hfc, \h00, \h00, \h00>>)), 2)),
          4)

\* NodeId's read under the lock: nodeId := clockSeqAndNode >> 16
NodeIdRead(csan) == WShr(csan, 16)

\* mutant of NewClockSeq: the increment is missing
NewClockSeqStuck(c) == BitAnd(c % 65536, \h1fff)

\* mutant of NewClockSeq: the mask is 0x1ff
NewClockSeqShort(c) == BitAnd((c + 1) % 65536, \h1ff)

\* New: clockSeq = (clockSeq + 1) & 0x1fff, in uint16
NewClockSeq(c) == BitAnd((c + 1) % 65536, \h1fff)

\* mutant of NewNodeRand: the PRNG is asked on every call
NewNodeRandAlways(c, old, r) == r

\* New: if clockSeq == 0 { nodeRand = uint16(mrand.Int31n(0x10000)) }, for the
\* new clock sequence c, the PRNG returning r if it is called
NewNodeRand(c, old, r) == IF c = 0 THEN r ELSE old

\* mutant of Repack: the mask keeps 24 node bits instead of 32
RepackShortMask(csan, c, r) ==
    WOr(WOr(WAnd(csan, Bytes(<<\he0, \h00, \h00, \hff, \hff, \hff, \h00, \h00>>)),
            WShl(WOfNat(c, 8), 48)),
        WOfNat(r, 8))

\* New and NewCrypto: the repack,
\* (clockSeqAndNode & 0xe000ffffffff0000) | ((uint64(clockSeq)) << 48) | uint64(nodeRand)
Repack(csan, c, r) ==
    WOr(WOr(WAnd(csan, Bytes(<<\he0, \h00, \hff, \hff, \hff, \hff, \h00, \h00>>)),
            WShl(WOfNat(c, 8), 48)),
        WOfNat(r, 8))

\* NewCrypto: a slice expression b[lo:hi] of the pool is in range
SliceOk(lo, hi) == 0 <= lo /\ lo <= hi /\ hi <= randBufCap

\* mutant of CursorBack: a short read moves the cursor back by a whole slice
CursorBackWhole(off, n) == IF n = 4 THEN off ELSE IF off - 4 < 0 THEN 0 ELSE off - 4

\* NewCrypto: the cursor after the read of n bytes,
\* if randBufOffset += n - 4; randBufOffset < 0 { randBufOffset = 0 }
CursorBack(off, n) == IF off + n - 4 < 0 THEN 0 ELSE off + n - 4

\* mutant of CursorNext: the wrap test is against randBufCap
CursorNextLate(off) == IF off + 4 > randBufCap THEN 0 ELSE off + 4

\* NewCrypto: the cursor after the 4 bytes are taken,
\* if randBufOffset += 4; randBufOffset > randBufCap-4 { randBufOffset = 0 }
CursorNext(off) == IF off + 4 > randBufCap - 4 THEN 0 ELSE off + 4

\* mutant of CryptoClockSeq: the mask keeps 14 bits
CryptoClockSeqWide(val) ==
    WNat(WConv(WAnd(WShr(val, 16), Bytes(<<\h00, \h00, \h3f, \hff>>)), 2))

\* NewCrypto: clockSeq = uint16((val >> 16) & 0x1fff)
CryptoClockSeq(val) ==
    WNat(WConv(WAnd(WShr(val, 16), Bytes(<<\h00, \h00, \h1f, \hff>>)), 2))

\* mutant of CryptoNodeRand: the high half of val is taken
CryptoNodeRandHigh(val) == WNat(WConv(WShr(val, 16), 2))

\* NewCrypto: nodeRand = uint16(val & 0xffff)
CryptoNodeRand(val) == WNat(WConv(WAnd(val, Bytes(<<\h00, \h00, \hff, \hff>>)), 2))

\* fromUnixNano: (ts / 100) + gregorianEpoch, in int64
fromUnixNano(ts) == WAdd(WSDiv(ts, 100), gregorianEpoch)

\* New and NewCrypto: bytes 0..7, the timestamp multiplexed with the version:
\*   uuid[0:4] = uint32(ts&0xffffffff)
\*   uuid[4:6] = uint16((ts>>32)&0xffff)
\*   uuid[6:8] = uint16((ts>>48)&0x0fff) | 1<<12
TimeLow(ts) == WConv(WAnd(ts, Bytes(<<0, 0, 0, 0, \hff, \hff, \hff, \hff>>)), 4)
TimeMid(ts) == WConv(WAnd(WSar(ts, 32), Bytes(<<0, 0, 0, 0, 0, 0, \hff, \hff>>)), 2)
\* mutant of TimeHiAndVersion: the mask is 0x00ff
TimeHiAndVersionByte(ts) ==
    WOr(WConv(WAnd(WSar(ts, 48), Bytes(<<0, 0, 0, 0, 0, 0, \h00, \hff>>)), 2),
        Bytes(<<\h10, \h00>>))

TimeHiAndVersion(ts) ==
    WOr(WConv(WAnd(WSar(ts, 48), Bytes(<<0, 0, 0, 0, 0, 0, \h0f, \hff>>)), 2),
        Bytes(<<\h10, \h00>>))

PutTime(uuid, ts) ==
    PutAt(PutAt(PutAt(uuid, 0, TimeLow(ts)), 4, TimeMid(ts)), 6, TimeHiAndVersion(ts))

\* UUID.NodeId
UUIDNodeId(u) == NodeIdBits(WShr(Slice(u, 8, 16), 16))

\* mutant of Version: the shift is by 8
VersionShift8(u) == WNat(WShr(WAnd(Slice(u, 6, 8), Bytes(<<\hf0, \h00>>)), 8))

\* UUID.Version: int((binary.BigEndian.Uint16(u[6:8]) & 0xf000) >> 12)
Version(u) == WNat(WShr(WAnd(Slice(u, 6, 8), Bytes(<<\hf0, \h00>>)), 12))

\* mutant of Variant: the mask is 0xc000
VariantMask2(u) == WNat(WShr(WAnd(Slice(u, 8, 10), Bytes(<<\hc0, \h00>>)), 13))

\* UUID.Variant: int((binary.BigEndian.Uint16(u[8:10]) & 0xe000) >> 13)
Variant(u) == WNat(WShr(WAnd(Slice(u, 8, 10), Bytes(<<\he0, \h00>>)), 13))

(***************************************************************************)
(* Initial state: the state init() leaves when it succeeds.                *)
(***************************************************************************)
NoGen == [fn |-> "none", tail |-> WZero(8), n |-> 0, off |-> 0, at |-> 0]

NoPrev == [fn |-> "none", tail |-> WZero(8)]

NoFrame ==
    [fn |-> "none", nodeId |-> WZero(4), uuid |-> WZero(16), local |-> WZero(8),
     inForce |-> [set |-> FALSE, v |-> WZero(4)],
     prev |-> NoPrev]

NoRet ==
    [fn |-> "none", caller |-> NoCaller, uuid |-> WZero(16), nodeId |-> WZero(4), err |-> FALSE,
     inForce |-> [set |-> FALSE, v |-> WZero(4)],
     prev |-> NoPrev]

NoMark == [set |-> FALSE, uuid |-> WZero(16), at |-> 0]

NoProbe == [set |-> FALSE, uuid |-> WZero(16), version |-> 0, variant |-> 0]

NoConv == [op |-> "none"]

NoSource == [reads |-> 0, ids |-> 0]

\* init(), having read the 8 bytes rd
InitWith(rd) ==
    /\ randBuf = PutAt(WZero(randBufCap), 0, InitBuf(rd))
    /\ randBufOffset = 0
    /\ clockSeqAndNode = InitBuf(rd)
    /\ clockSeq = InitClockSeq(InitBuf(rd))
    /\ nodeRand = InitNodeRand(InitBuf(rd))
    /\ csanMutex = NoCaller
    /\ pc = [p \in Callers |-> "idle"]
    /\ frame = [p \in Callers |-> NoFrame]
    /\ ret = NoRet
    /\ panicked = FALSE
    /\ lastSet = [set |-> FALSE, v |-> WZero(4)]
    /\ lastGen = NoGen
    /\ calls = 0
    /\ marked = NoMark
    /\ source = NoSource

Init == probe = NoProbe /\ conv = NoConv /\ \E rd \in InitReads : InitWith(rd)

(***************************************************************************)
(* The calls.  A call is started (Begin), takes the lock (Lock), runs its  *)
(* locked section up to and including Unlock (the ...Locked actions) and   *)
(* finishes outside the lock (the ...Return actions).                      *)
(***************************************************************************)
Begin(p, fn, nodeId) ==
    /\ pc[p] = "idle"
    /\ pc' = [pc EXCEPT ![p] = "lock"]
    /\ frame' = [frame EXCEPT ![p] = [NoFrame EXCEPT !.fn = fn, !.nodeId = nodeId]]
    /\ UNCHANGED <<shared, csanMutex, ret, panicked, lastSet, lastGen>>

\* mutant of Lock: the caller does not wait for the mutex to be free
LockNoWait(p) ==
    /\ pc[p] = "lock"
    /\ csanMutex' = p
    /\ pc' = [pc EXCEPT ![p] = "locked"]
    /\ UNCHANGED <<shared, frame, ret, panicked, lastSet, lastGen, calls>>

\* csanMutex.Lock()
Lock(p) ==
    /\ pc[p] = "lock"
    /\ csanMutex = NoCaller
    /\ csanMutex' = p
    /\ pc' = [pc EXCEPT ![p] = "locked"]
    /\ UNCHANGED <<shared, frame, ret, panicked, lastSet, lastGen, calls>>

\* mutant of SetNodeIdLocked: the error path leaves without Unlock
SetNodeIdLockedErrKeeps(p) ==
    /\ pc[p] = "locked"
    /\ frame[p].fn = "SetNodeId"
    /\ csanMutex = p
    /\ clockSeqAndNode' = SetNodeIdPack(clockSeqAndNode, frame[p].nodeId)
    /\ csanMutex' = (IF SetNodeIdErr(frame[p].nodeId) THEN p ELSE NoCaller)
    /\ pc' = [pc EXCEPT ![p] = "unlocked"]
    /\ lastSet' = [set |-> TRUE, v |-> frame[p].nodeId]
    /\ UNCHANGED <<randBuf, randBufOffset, clockSeq, nodeRand, frame, ret, panicked,
                   lastGen, calls>>

SetNodeIdLocked(p) ==
    /\ pc[p] = "locked"
    /\ frame[p].fn = "SetNodeId"
    /\ csanMutex = p
    /\ clockSeqAndNode' = SetNodeIdPack(clockSeqAndNode, frame[p].nodeId)
    /\ csanMutex' = NoCaller
    /\ pc' = [pc EXCEPT ![p] = "unlocked"]
    /\ lastSet' = [set |-> TRUE, v |-> frame[p].nodeId]
    /\ UNCHANGED <<randBuf, randBufOffset, clockSeq, nodeRand, frame, ret, panicked,
                   lastGen, calls>>

SetNodeIdReturn(p) ==
    /\ pc[p] = "unlocked"
    /\ frame[p].fn = "SetNodeId"
    /\ ret' = [NoRet EXCEPT !.fn = "SetNodeId", !.caller = p,
                             !.nodeId = frame[p].nodeId,
                             !.err = SetNodeIdErr(frame[p].nodeId)]
    /\ pc' = [pc EXCEPT ![p] = "idle"]
    /\ frame' = [frame EXCEPT ![p] = NoFrame]
    /\ UNCHANGED <<shared, csanMutex, panicked, lastSet, lastGen, calls>>

NodeIdLocked(p) ==
    /\ pc[p] = "locked"
    /\ frame[p].fn = "NodeId"
    /\ csanMutex = p
    /\ frame' = [frame EXCEPT ![p].local = NodeIdRead(clockSeqAndNode),
                              ![p].inForce = lastSet]
    /\ csanMutex' = NoCaller
    /\ pc' = [pc EXCEPT ![p] = "unlocked"]
    /\ UNCHANGED <<shared, ret, panicked, lastSet, lastGen, calls>>

NodeIdReturn(p) ==
    /\ pc[p] = "unlocked"
    /\ frame[p].fn = "NodeId"
    /\ ret' = [NoRet EXCEPT !.fn = "NodeId", !.caller = p,
                             !.nodeId = NodeIdBits(frame[p].local),
                             !.inForce = frame[p].inForce]
    /\ pc' = [pc EXCEPT ![p] = "idle"]
    /\ frame' = [frame EXCEPT ![p] = NoFrame]
    /\ UNCHANGED <<shared, csanMutex, panicked, lastSet, lastGen, calls>>

\* the locked section of New, the PRNG returning r if it is called
NewLocked(p, r) ==
    /\ pc[p] = "locked"
    /\ frame[p].fn = "New"
    /\ csanMutex = p
    /\ clockSeq' = NewClockSeq(clockSeq)
    /\ nodeRand' = NewNodeRand(clockSeq', nodeRand, r)
    /\ clockSeqAndNode' = Repack(clockSeqAndNode, clockSeq', nodeRand')
    /\ frame' = [frame EXCEPT ![p].uuid = PutAt(@, 8, clockSeqAndNode'),
                              ![p].inForce = lastSet,
                              ![p].prev = [fn |-> lastGen.fn, tail |-> lastGen.tail]]
    /\ lastGen' = [NoGen EXCEPT !.fn = "New", !.tail = clockSeqAndNode']
    /\ csanMutex' = NoCaller
    /\ pc' = [pc EXCEPT ![p] = "unlocked"]
    /\ UNCHANGED <<randBuf, randBufOffset, ret, panicked, lastSet, calls>>

\* the locked section of NewCrypto, rand.Read delivering the bytes rd
NewCryptoLocked(p, rd) ==
    /\ pc[p] = "locked"
    /\ frame[p].fn = "NewCrypto"
    /\ csanMutex = p
    /\ LET n == Len(rd)
           buf == PutAt(randBuf, randBufOffset, Bytes(rd))
           back == CursorBack(randBufOffset, n)
           val == Slice(buf, back, back + 4)
       IN  IF SliceOk(randBufOffset, randBufOffset + 4) /\ SliceOk(back, back + 4)
           THEN /\ randBuf' = buf
                /\ randBufOffset' = CursorNext(back)
                /\ clockSeq' = CryptoClockSeq(val)
                /\ nodeRand' = CryptoNodeRand(val)
                /\ clockSeqAndNode' = Repack(clockSeqAndNode, clockSeq', nodeRand')
                /\ frame' = [frame EXCEPT ![p].uuid = PutAt(@, 8, clockSeqAndNode'),
                                          ![p].inForce = lastSet,
                                          ![p].prev = [fn |-> lastGen.fn, tail |-> lastGen.tail]]
                /\ lastGen' = [fn |-> "NewCrypto", tail |-> clockSeqAndNode',
                                n |-> n, off |-> randBufOffset, at |-> back]
                /\ csanMutex' = NoCaller
                /\ pc' = [pc EXCEPT ![p] = "unlocked"]
                /\ UNCHANGED panicked
           ELSE \* slice bounds out of range: the goroutine panics holding the lock
                /\ panicked' = TRUE
                /\ pc' = [pc EXCEPT ![p] = "panic"]
                /\ UNCHANGED <<shared, frame, lastGen, csanMutex>>
    /\ UNCHANGED <<ret, lastSet, calls>>

\* New and NewCrypto outside the lock, the clock reading t
GenReturn(p, t) ==
    /\ pc[p] = "unlocked"
    /\ frame[p].fn \in {"New", "NewCrypto"}
    /\ ret' = [NoRet EXCEPT !.fn = frame[p].fn, !.caller = p,
                             !.uuid = PutTime(frame[p].uuid, fromUnixNano(t)),
                             !.inForce = frame[p].inForce,
                             !.prev = frame[p].prev]
    /\ pc' = [pc EXCEPT ![p] = "idle"]
    /\ frame' = [frame EXCEPT ![p] = NoFrame]
    /\ UNCHANGED <<shared, csanMutex, panicked, lastSet, lastGen, calls>>

(***************************************************************************)
(* Spec: NumCallers concurrent callers make MaxCalls calls in all.         *)
(***************************************************************************)
Start(p) ==
    /\ calls < MaxCalls
    /\ calls' = calls + 1
    /\ \/ Begin(p, "New", WZero(4))
       \/ Begin(p, "NewCrypto", WZero(4))
       \/ Begin(p, "NodeId", WZero(4))
       \/ \E v \in NodeIdArgs : Begin(p, "SetNodeId", v)

Next ==
    /\ ~panicked
    /\ UNCHANGED <<marked, probe, conv, source>>
    /\ \E p \in Callers :
          \/ Start(p)
          \/ Lock(p)
          \/ SetNodeIdLocked(p)
          \/ SetNodeIdReturn(p)
          \/ NodeIdLocked(p)
          \/ NodeIdReturn(p)
          \/ \E r \in PrngVals : NewLocked(p, r)
          \/ \E rd \in CryptoReads : NewCryptoLocked(p, rd)
          \/ \E t \in TimeVals : GenReturn(p, t)

Spec == Init /\ [][Next]_vars

(***************************************************************************)
(* SpecNode: one caller makes MaxCalls calls of SetNodeId, NodeId, New and *)
(* NewCrypto, one after the other.                                         *)
(***************************************************************************)
NextNode ==
    /\ ~panicked
    /\ UNCHANGED <<marked, probe, conv, source>>
    /\ \/ Start(1)
       \/ Lock(1)
       \/ SetNodeIdLocked(1)
       \/ SetNodeIdReturn(1)
       \/ NodeIdLocked(1)
       \/ NodeIdReturn(1)
       \/ \E r \in PrngVals : NewLocked(1, r)
       \/ \E rd \in CryptoReads : NewCryptoLocked(1, rd)
       \/ \E t \in TimeVals : GenReturn(1, t)

SpecNode == Init /\ [][NextNode]_vars

(***************************************************************************)
(* SpecTick: one caller calls New again and again, through a whole period  *)
(* of the clock sequence.  One of the first MarkWindow identifiers is kept *)
(* in marked, to be compared with the later ones.                          *)
(***************************************************************************)
\* the clock sequence takes the values 0..0x1fff
ClockSeqPeriod == 8192
\* the identifiers that can be kept are the first MarkWindow ones
MarkWindow == 2
MaxTickCalls == ClockSeqPeriod + MarkWindow + 1
\* two clock readings that fall in one 100ns tick
TickVals ==
    { Bytes(<<\h18, \hd5, \h3c, \h2a, \h7f, \h01, \h9c, \h00>>),
      Bytes(<<\h18, \hd5, \h3c, \h2a, \h7f, \h01, \h9c, \h01>>) }

InitTick == probe = NoProbe /\ conv = NoConv /\ InitWith(Bytes(<<\hff, \hfe, \hff, \h5a, \hc3, \h0f, \hbe, \hef>>))

StartTick ==
    /\ calls < MaxTickCalls
    /\ calls' = calls + 1
    /\ Begin(1, "New", WZero(4))

\* keep the identifier the last call returned
Mark ==
    /\ pc[1] = "idle"
    /\ ret.fn = "New"
    /\ ~marked.set
    /\ calls <= MarkWindow
    /\ marked' = [set |-> TRUE, uuid |-> ret.uuid, at |-> calls]
    /\ UNCHANGED <<shared, csanMutex, pc, frame, ret, panicked, lastSet, lastGen,
                   calls, probe>>

NextTick ==
    /\ ~panicked
    /\ UNCHANGED <<probe, conv, source>>
    /\ \/ /\ UNCHANGED marked
          /\ \/ StartTick
             \/ Lock(1)
             \/ \E r \in PrngVals : NewLocked(1, r)
             \/ \E t \in TickVals : GenReturn(1, t)
       \/ Mark

SpecTick == InitTick /\ [][NextTick]_vars

\* the identifiers u and v carry the same timestamp (bytes 0..7)
SameTick(u, v) == Slice(u, 0, 8) = Slice(v, 0, 8)

(***************************************************************************)
(* SpecPool: one caller calls NewCrypto again and again, each read of the  *)
(* cryptographic source delivering 0 to 4 bytes, so that the cursor runs   *)
(* through the pool and wraps.                                             *)
(***************************************************************************)
PoolReads ==
    { <<>>, <<\ha5>>, <<\ha5, \ha5>>, <<\ha5, \ha5, \ha5>>, <<\ha5, \ha5, \ha5, \ha5>> }

InitPool ==
    /\ probe = NoProbe
    /\ conv = NoConv
    /\ InitWith(Bytes(<<\h00, \h00, \h00, \h00, \h00, \h00, \h00, \h00>>))

StartPool == Begin(1, "NewCrypto", WZero(4)) /\ UNCHANGED calls

NextPool ==
    /\ ~panicked
    /\ UNCHANGED <<marked, probe, conv, source>>
    /\ \/ StartPool
       \/ Lock(1)
       \/ \E rd \in PoolReads : NewCryptoLocked(1, rd)
       \/ \E t \in TickVals : GenReturn(1, t)

SpecPool == InitPool /\ [][NextPool]_vars

(***************************************************************************)
(* SpecSource: one caller calls NewCrypto MaxSourceCalls times, enough to  *)
(* take the cursor through the pool and past its wrap.  Each rand.Read     *)
(* delivers the 4 bytes asked for or none.  The reads of the source and    *)
(* the identifiers returned are counted in source.                         *)
(***************************************************************************)
MaxSourceCalls == 66

SourceReads == { <<>>, <<\ha5, \h5a, \hc3, \h3c>> }

\* mutant of Fetch: the source is read only when the 4 bytes at the cursor
\* are the pool's last
FetchOnOverrun(src, off) ==
    IF off + 4 > randBufCap - 4 THEN [src EXCEPT !.reads = @ + 1] ELSE src

\* NewCrypto: n, _ := rand.Read(randBuf[randBufOffset : randBufOffset+4]),
\* a call of the source wherever the cursor off is
Fetch(src, off) == [src EXCEPT !.reads = @ + 1]

InitSource == InitPool

StartSource ==
    /\ calls < MaxSourceCalls
    /\ calls' = calls + 1
    /\ Begin(1, "NewCrypto", WZero(4))
    /\ UNCHANGED source

NewCryptoRead(rd) ==
    /\ NewCryptoLocked(1, rd)
    /\ source' = Fetch(source, randBufOffset)

NewCryptoReturn(t) ==
    /\ frame[1].fn = "NewCrypto"
    /\ GenReturn(1, t)
    /\ source' = [source EXCEPT !.ids = @ + 1]

NextSource ==
    /\ ~panicked
    /\ UNCHANGED <<marked, probe, conv>>
    /\ \/ StartSource
       \/ Lock(1) /\ UNCHANGED source
       \/ \E rd \in SourceReads : NewCryptoRead(rd)
       \/ \E t \in TickVals : NewCryptoReturn(t)

SpecSource == InitSource /\ [][NextSource]_vars

(***************************************************************************)
(* SpecAcc: the accessors Version and Variant applied to an identifier     *)
(* built from 16 raw bytes.                                                *)
(***************************************************************************)
\* uuid of src/uuid_test.go: f254df4a-184c-1019-80a4-c61cd00a6899
TestUUID ==
    Bytes(<<\hf2, \h54, \hdf, \h4a, \h18, \h4c, \h10, \h19,
            \h80, \ha4, \hc6, \h1c, \hd0, \h0a, \h68, \h99>>)

Byte6Vals == {\h00, \h10, \h1f, \h20, \h45, \h5a, \hf0, \hff}

Byte8Vals ==
    {\h00, \h1f, \h20, \h3f, \h40, \h60, \h7f, \h80, \h9f, \ha0, \hbf, \hc0,
     \hdf, \he0, \hff}

ProbeUUIDs ==
    { [TestUUID EXCEPT ![6] = b6, ![8] = b8] : b6 \in Byte6Vals, b8 \in Byte8Vals }

InitAcc ==
    /\ \E u \in ProbeUUIDs : probe = [NoProbe EXCEPT !.uuid = u]
    /\ conv = NoConv
    /\ InitWith(Bytes(<<\h00, \h00, \h00, \h00, \h00, \h00, \h00, \h00>>))

\* u.Version() and u.Variant() of the identifier u
Inspect ==
    /\ ~probe.set
    /\ probe' = [set |-> TRUE, uuid |-> probe.uuid,
                 version |-> Version(probe.uuid), variant |-> Variant(probe.uuid)]
    /\ UNCHANGED <<shared, csanMutex, pc, frame, ret, panicked, lastSet, lastGen,
                   calls, marked, conv, source>>

NextAcc == Inspect

SpecAcc == InitAcc /\ [][NextAcc]_vars

(***************************************************************************)
(* SpecRace: two callers call New and SetNodeId concurrently.  The locked  *)
(* section of each is taken in two steps, the loads of the shared          *)
(* variables into the caller's registers and the stores of the values      *)
(* computed from them, so that what the mutex excludes is another caller's *)
(* step between the two.                                                   *)
(***************************************************************************)
\* number of New calls started in one behaviour of SpecRace
MaxRaceCalls == 3

RaceArgs ==
    { Bytes(<<\h3f, \hff, \hff, \hff>>), Bytes(<<\h95, \haa, \h3c, \hf0>>) }

InitRace == probe = NoProbe /\ conv = NoConv /\ \E rd \in InitReads : InitWith(rd)

StartRace(p) ==
    \/ /\ calls < MaxRaceCalls
       /\ calls' = calls + 1
       /\ Begin(p, "New", WZero(4))
    \/ /\ UNCHANGED calls
       /\ \E v \in RaceArgs : Begin(p, "SetNodeId", v)

\* New and SetNodeId: the loads of clockSeq, nodeRand and clockSeqAndNode
Load(p) ==
    /\ pc[p] = "locked"
    /\ frame[p].fn \in {"New", "SetNodeId"}
    /\ frame' = [frame EXCEPT ![p] =
                    [seq |-> clockSeq, rnd |-> nodeRand]
                    @@ [@ EXCEPT !.local = clockSeqAndNode]]
    /\ pc' = [pc EXCEPT ![p] = "loaded"]
    /\ UNCHANGED <<shared, csanMutex, ret, panicked, lastSet, lastGen, calls>>

\* New: the stores, the PRNG returning r if it is called, and Unlock
NewStore(p, r) ==
    /\ pc[p] = "loaded"
    /\ frame[p].fn = "New"
    /\ clockSeq' = NewClockSeq(frame[p].seq)
    /\ nodeRand' = NewNodeRand(clockSeq', frame[p].rnd, r)
    /\ clockSeqAndNode' = Repack(frame[p].local, clockSeq', nodeRand')
    /\ frame' = [frame EXCEPT ![p].uuid = PutAt(@, 8, clockSeqAndNode'),
                              ![p].inForce = lastSet,
                              ![p].prev = [fn |-> lastGen.fn, tail |-> lastGen.tail]]
    /\ lastGen' = [NoGen EXCEPT !.fn = "New", !.tail = clockSeqAndNode']
    /\ csanMutex' = NoCaller
    /\ pc' = [pc EXCEPT ![p] = "unlocked"]
    /\ UNCHANGED <<randBuf, randBufOffset, ret, panicked, lastSet, calls>>

\* SetNodeId: the store and Unlock
SetNodeIdStore(p) ==
    /\ pc[p] = "loaded"
    /\ frame[p].fn = "SetNodeId"
    /\ clockSeqAndNode' = SetNodeIdPack(frame[p].local, frame[p].nodeId)
    /\ csanMutex' = NoCaller
    /\ pc' = [pc EXCEPT ![p] = "unlocked"]
    /\ lastSet' = [set |-> TRUE, v |-> frame[p].nodeId]
    /\ UNCHANGED <<randBuf, randBufOffset, clockSeq, nodeRand, frame, ret, panicked,
                   lastGen, calls>>

NextRace ==
    /\ UNCHANGED <<marked, probe, conv, source>>
    /\ \E p \in Callers :
          \/ StartRace(p)
          \/ Lock(p)
          \/ Load(p)
          \/ \E r \in PrngVals : NewStore(p, r)
          \/ SetNodeIdStore(p)
          \/ SetNodeIdReturn(p)
          \/ \E t \in TickVals : GenReturn(p, t)

SpecRace == InitRace /\ [][NextRace]_vars

\* the callers between Lock and Unlock
InSection == {p \in Callers : pc[p] \in {"locked", "loaded"}}

\* the New calls whose stores are done
NewDone ==
    calls - Cardinality({p \in Callers :
                            frame[p].fn = "New" /\ pc[p] \in {"lock", "locked", "loaded"}})

(***************************************************************************)
(* SpecSteps: the callers call SetNodeId, NodeId, New and NewCrypto        *)
(* concurrently, MaxStepCalls calls in all, and the locked sections of New *)
(* and NewCrypto are taken statement by statement: the update of clockSeq  *)
(* and nodeRand, the repack of clockSeqAndNode, and the copy of the packed *)
(* state into the identifier followed by Unlock.                           *)
(***************************************************************************)
MaxStepCalls == 3

StepReads == { <<\hff, \hff>>, <<\h1f, \hfe, \hbe, \hef>> }

StartSteps(p) ==
    /\ calls < MaxStepCalls
    /\ calls' = calls + 1
    /\ \/ Begin(p, "New", WZero(4))
       \/ Begin(p, "NewCrypto", WZero(4))
       \/ Begin(p, "NodeId", WZero(4))
       \/ \E v \in RaceArgs : Begin(p, "SetNodeId", v)

\* New: if clockSeq = (clockSeq + 1) & 0x1fff; clockSeq == 0 { nodeRand = ... },
\* the PRNG returning r if it is called
NewBump(p, r) ==
    /\ pc[p] = "locked"
    /\ frame[p].fn = "New"
    /\ csanMutex = p
    /\ clockSeq' = NewClockSeq(clockSeq)
    /\ nodeRand' = NewNodeRand(clockSeq', nodeRand, r)
    /\ frame' = [frame EXCEPT ![p] = [seq |-> clockSeq', rnd |-> nodeRand'] @@ @]
    /\ pc' = [pc EXCEPT ![p] = "bumped"]
    /\ UNCHANGED <<randBuf, randBufOffset, clockSeqAndNode, csanMutex, ret, panicked,
                   lastSet, lastGen, calls>>

\* NewCrypto: the read, the two cursor updates and the assignments of clockSeq
\* and nodeRand, rand.Read delivering the bytes rd
NewCryptoDraw(p, rd) ==
    /\ pc[p] = "locked"
    /\ frame[p].fn = "NewCrypto"
    /\ csanMutex = p
    /\ LET n == Len(rd)
           buf == PutAt(randBuf, randBufOffset, Bytes(rd))
           back == CursorBack(randBufOffset, n)
           val == Slice(buf, back, back + 4)
       IN  IF SliceOk(randBufOffset, randBufOffset + 4) /\ SliceOk(back, back + 4)
           THEN /\ randBuf' = buf
                /\ randBufOffset' = CursorNext(back)
                /\ clockSeq' = CryptoClockSeq(val)
                /\ nodeRand' = CryptoNodeRand(val)
                /\ frame' = [frame EXCEPT ![p] =
                                [seq |-> clockSeq', rnd |-> nodeRand'] @@ @]
                /\ pc' = [pc EXCEPT ![p] = "bumped"]
                /\ UNCHANGED panicked
           ELSE /\ panicked' = TRUE
                /\ pc' = [pc EXCEPT ![p] = "panic"]
                /\ UNCHANGED <<randBuf, randBufOffset, clockSeq, nodeRand, frame>>
    /\ UNCHANGED <<clockSeqAndNode, csanMutex, ret, lastSet, lastGen, calls>>

\* New and NewCrypto: clockSeqAndNode = (clockSeqAndNode & 0xe000ffffffff0000) | ...
Pack(p) ==
    /\ pc[p] = "bumped"
    /\ clockSeqAndNode' = Repack(clockSeqAndNode, clockSeq, nodeRand)
    /\ pc' = [pc EXCEPT ![p] = "packed"]
    /\ UNCHANGED <<randBuf, randBufOffset, clockSeq, nodeRand, csanMutex, frame, ret,
                   panicked, lastSet, lastGen, calls>>

\* New and NewCrypto: binary.BigEndian.PutUint64(uuid[8:], clockSeqAndNode)
\* and csanMutex.Unlock()
PutUnlock(p) ==
    /\ pc[p] = "packed"
    /\ frame' = [frame EXCEPT ![p].uuid = PutAt(@, 8, clockSeqAndNode),
                              ![p].inForce = lastSet,
                              ![p].prev = [fn |-> lastGen.fn, tail |-> lastGen.tail]]
    /\ lastGen' = [NoGen EXCEPT !.fn = frame[p].fn, !.tail = clockSeqAndNode]
    /\ csanMutex' = NoCaller
    /\ pc' = [pc EXCEPT ![p] = "unlocked"]
    /\ UNCHANGED <<shared, ret, panicked, lastSet, calls>>

NextSteps ==
    /\ ~panicked
    /\ UNCHANGED <<marked, probe, conv, source>>
    /\ \E p \in Callers :
          \/ StartSteps(p)
          \/ Lock(p)
          \/ SetNodeIdLocked(p)
          \/ SetNodeIdReturn(p)
          \/ NodeIdLocked(p)
          \/ NodeIdReturn(p)
          \/ \E r \in PrngVals : NewBump(p, r)
          \/ \E rd \in StepReads : NewCryptoDraw(p, rd)
          \/ Pack(p)
          \/ PutUnlock(p)
          \/ \E t \in TickVals : GenReturn(p, t)

SpecSteps == InitRace /\ [][NextSteps]_vars

\* the position a caller at pos in a call of fn is at after its next step
After(pos, fn) ==
    CASE pos = "locked" -> (IF fn \in {"New", "NewCrypto"} THEN "bumped" ELSE "unlocked")
      [] pos = "bumped" -> "packed"
      [] pos = "packed" -> "unlocked"
      [] OTHER -> "idle"

\* caller p takes the next step of its call, past its Lock
Advance(p) ==
    /\ pc[p] \in {"locked", "bumped", "packed", "unlocked"}
    /\ pc' = [pc EXCEPT ![p] = After(pc[p], frame[p].fn)]

\* caller p gets csanMutex in its Lock
Enter(p) ==
    /\ pc[p] = "lock"
    /\ csanMutex = NoCaller
    /\ pc' = [pc EXCEPT ![p] = "locked"]

\* SpecSteps under fair scheduling: a goroutine that can take a step takes
\* it, and a goroutine waiting in csanMutex.Lock() gets the mutex if it is
\* free again and again (the mutex hands over to a starving waiter)
FairSteps ==
    /\ SpecSteps
    /\ \A p \in Callers : WF_pc(Advance(p)) /\ SF_pc(Enter(p))

(***************************************************************************)
(* The generator's variables, which the constructors, formatters and       *)
(* parsers leave alone.                                                    *)
(***************************************************************************)
generator ==
    <<shared, csanMutex, pc, frame, ret, panicked, lastSet, lastGen, calls, marked,
      source>>

\* the state init() leaves, no accessor and no constructor called
InitIdle ==
    /\ probe = NoProbe
    /\ InitWith(Bytes(<<\h00, \h00, \h00, \h00, \h00, \h00, \h00, \h00>>))

(***************************************************************************)
(* SpecBytes: NewFromBytes applied to a byte slice, and writes through the *)
(* slice and through the identifier afterwards.  Byte arrays live in a     *)
(* heap, a function from array names to contents; a slice or an identifier *)
(* is the name of its array, nil is 0.                                     *)
(***************************************************************************)
\* number of writes after the call
MaxWrites == 2

nil == 0

\* 32-byte patterns the arguments are cut from
BytePatterns ==
    { WZero(32),
      [i \in 0..31 |-> TestUUID[i % 16]],
      [i \in 0..31 |-> 255 - i] }

\* len(b)
ArgLens == {0, 1, 15, 16, 17, 32}

BytesArgs == { Slice(pat, 0, n) : pat \in BytePatterns, n \in ArgLens }

WriteIndexes == {0, 7, 15}

WriteValues == {\h5a, \ha5}

\* mutant of NewFromBytes: the identifier is the argument's array, not a copy
NewFromBytesAlias(heap, b) ==
    IF WLen(heap[b]) # 16
    THEN [heap |-> heap, uuid |-> nil, err |-> TRUE]
    ELSE [heap |-> heap, uuid |-> b, err |-> FALSE]

\* NewFromBytes(b): the heap it leaves, the identifier and the error it returns
NewFromBytes(heap, b) ==
    IF WLen(heap[b]) # 16
    THEN [heap |-> heap, uuid |-> nil, err |-> TRUE]
    ELSE LET new == 1 + Cardinality(DOMAIN heap)
         IN  [heap |-> heap @@ (new :> PutAt(WZero(16), 0, Slice(heap[b], 0, 16))),
              uuid |-> new, err |-> FALSE]

InitBytes ==
    /\ InitIdle
    /\ \E arg \in BytesArgs :
          conv = [op |-> "NewFromBytes", done |-> FALSE, heap |-> (1 :> arg), b |-> 1,
                  arg |-> arg, uuid |-> nil, err |-> FALSE,
                  wroteB |-> FALSE, wroteUuid |-> FALSE, writes |-> 0]

CallNewFromBytes ==
    /\ conv.op = "NewFromBytes"
    /\ ~conv.done
    /\ LET r == NewFromBytes(conv.heap, conv.b)
       IN  conv' = [conv EXCEPT !.done = TRUE, !.heap = r.heap, !.uuid = r.uuid,
                                !.err = r.err]
    /\ UNCHANGED <<generator, probe>>

\* b[i] = v, after the call
WriteB(i, v) ==
    /\ conv.done
    /\ conv.writes < MaxWrites
    /\ i \in DOMAIN conv.heap[conv.b]
    /\ conv' = [conv EXCEPT !.heap[conv.b][i] = v, !.wroteB = TRUE,
                            !.writes = @ + 1]
    /\ UNCHANGED <<generator, probe>>

\* uuid[i] = v, on the identifier returned
WriteUuid(i, v) ==
    /\ conv.done
    /\ conv.writes < MaxWrites
    /\ conv.uuid # nil
    /\ i \in DOMAIN conv.heap[conv.uuid]
    /\ conv' = [conv EXCEPT !.heap[conv.uuid][i] = v, !.wroteUuid = TRUE,
                            !.writes = @ + 1]
    /\ UNCHANGED <<generator, probe>>

NextBytes ==
    \/ CallNewFromBytes
    \/ \E i \in WriteIndexes, v \in WriteValues : WriteB(i, v)
    \/ \E i \in WriteIndexes, v \in WriteValues : WriteUuid(i, v)

SpecBytes == InitBytes /\ [][NextBytes]_vars

(***************************************************************************)
(* SpecTime: New is called with the clock reading t, then Time() and       *)
(* UnixNano() are applied to the identifier it returns.                    *)
(***************************************************************************)
\* toUnixNano: (ts - gregorianEpoch) * 100, in int64
toUnixNano(ts) == WMul(WSub(ts, gregorianEpoch), 100)

\* time.Unix(sec, nsec): the seconds (int64) and the nanoseconds within the
\* second, brought into [0, 1e9)
Unix(sec, nsec) ==
    IF nsec < 0 \/ nsec >= 1000000000
    THEN LET n == IF nsec < 0 THEN -((-nsec) \div 1000000000)
                  ELSE nsec \div 1000000000
             sec1 == WAdd(sec, WOfInt(n, 8))
             nsec1 == nsec - n * 1000000000
         IN  IF nsec1 < 0
             THEN [sec |-> WAdd(sec1, WOfInt(-1, 8)), nsec |-> nsec1 + 1000000000]
             ELSE [sec |-> sec1, nsec |-> nsec1]
    ELSE [sec |-> sec, nsec |-> nsec]

\* Time.UnixNano(): sec*1e9 + nsec, in int64
UnixNano(tm) == WAdd(WMul1e9(tm.sec), WOfNat(tm.nsec, 8))

\* UUID.Time
Time(u) ==
    LET timeLow == WConv(Slice(u, 0, 4), 8)
        timeMid == WConv(Slice(u, 4, 6), 8)
        timeHi == WConv(WAnd(Slice(u, 6, 8), Bytes(<<\h0f, \hff>>)), 8)
        nanosecs == toUnixNano(WAdd(WAdd(timeLow, WShl(timeMid, 32)), WShl(timeHi, 48)))
        secs == WDiv1e9(nanosecs)
    IN  Unix(secs, WInt(WSub(nanosecs, WMul1e9(secs))))

\* readings of the clock, Unix nanoseconds as int64
TimeEdges ==
    { Bytes(<<\h00, \h00, \h00, \h00, \h00, \h00, \h00, \h00>>),   \* 0
      Bytes(<<\h00, \h00, \h00, \h00, \h00, \h00, \h00, \h01>>),   \* 1
      Bytes(<<\h00, \h00, \h00, \h00, \h00, \h00, \h00, \h63>>),   \* 99
      Bytes(<<\h00, \h00, \h00, \h00, \h00, \h00, \h00, \h64>>),   \* 100
      Bytes(<<\h00, \h00, \h00, \h00, \h00, \h00, \h00, \h65>>),   \* 101
      Bytes(<<\h00, \h00, \h00, \h00, \h00, \h00, \h00, \hc7>>),   \* 199
      Bytes(<<\hff, \hff, \hff, \hff, \hff, \hff, \hff, \hff>>),   \* -1
      Bytes(<<\hff, \hff, \hff, \hff, \hff, \hff, \hff, \h9d>>),   \* -99
      Bytes(<<\hff, \hff, \hff, \hff, \hff, \hff, \hff, \h9c>>),   \* -100
      Bytes(<<\hff, \hff, \hff, \hff, \hff, \hff, \hff, \h9b>>),   \* -101
      Bytes(<<\hff, \hff, \hff, \hff, \hff, \hff, \hff, \h39>>),   \* -199
      Bytes(<<\h7f, \hff, \hff, \hff, \hff, \hff, \hff, \hff>>),   \* 9223372036854775807
      Bytes(<<\h80, \h00, \h00, \h00, \h00, \h00, \h00, \h00>>),   \* -9223372036854775808
      Bytes(<<\h80, \h00, \h00, \h00, \h00, \h00, \h00, \h01>>),   \* -9223372036854775807
      Bytes(<<\h7f, \hff, \hff, \hff, \hff, \hff, \hff, \h9c>>),   \* 9223372036854775708
      Bytes(<<\h80, \h00, \h00, \h00, \h00, \h00, \h00, \h08>>),   \* -9223372036854775800
      Bytes(<<\h00, \h00, \h00, \h00, \h3b, \h9a, \hc9, \hff>>),   \* 999999999
      Bytes(<<\h00, \h00, \h00, \h00, \h3b, \h9a, \hca, \h00>>),   \* 1000000000
      Bytes(<<\h00, \h00, \h00, \h00, \h3b, \h9a, \hca, \h01>>),   \* 1000000001
      Bytes(<<\hff, \hff, \hff, \hff, \hc4, \h65, \h36, \h01>>),   \* -999999999
      Bytes(<<\hff, \hff, \hff, \hff, \hc4, \h65, \h36, \h00>>),   \* -1000000000
      Bytes(<<\hff, \hff, \hff, \hff, \hc4, \h65, \h35, \hff>>),   \* -1000000001
      Bytes(<<\h00, \h00, \h00, \h00, \h3b, \h9a, \hc9, \h9c>>),   \* 999999900
      Bytes(<<\hff, \hff, \hff, \hff, \hc4, \h65, \h36, \h64>>),   \* -999999900
      Bytes(<<\h18, \hd5, \h3c, \h2a, \h7f, \h01, \h9c, \h00>>),   \* 1789402580166745088
      Bytes(<<\h18, \hd5, \h3c, \h2a, \h7f, \h01, \h9c, \h64>>),   \* 1789402580166745188
      Bytes(<<\h18, \hd5, \h3c, \h2a, \h7f, \h01, \h9c, \h63>>),   \* 1789402580166745187
      Bytes(<<\h14, \h83, \hfd, \ha7, \hd6, \h0a, \h00, \h00>>),   \* 1478304000000000000
      Bytes(<<\h14, \h83, \hfd, \ha7, \hdd, \h65, \hcd, \h15>>),   \* 1478304000123456789
      Bytes(<<\h38, \hee, \hcf, \hcf, \h56, \ha6, \h00, \h00>>),   \* 4102444800000000000
      Bytes(<<\ha0, \hf7, \hb5, \hd0, \hcc, \hc9, \h00, \h00>>),   \* -6847804800000000000
      Bytes(<<\h80, \h00, \h00, \h00, \h32, \hf2, \hd8, \h00>>),   \* -9223372036000000000
      Bytes(<<\h7f, \hff, \hff, \hff, \hcd, \h0d, \h28, \h00>>),   \* 9223372036000000000
      Bytes(<<\h7f, \hff, \hff, \hff, \hff, \hff, \hff, \hf7>>),   \* 9223372036854775799
      Bytes(<<\hfe, \h4d, \he2, \h2d, \hec, \h7e, \hc0, \h00>>),   \* -122192928000000000
      Bytes(<<\h00, \h00, \h00, \h00, \hff, \hff, \hff, \hff>>),   \* 4294967295
      Bytes(<<\h00, \h00, \h00, \h01, \h00, \h00, \h00, \h00>>),   \* 4294967296
      Bytes(<<\h00, \h00, \hff, \hff, \hff, \hff, \hff, \hff>>),   \* 281474976710655
      Bytes(<<\h00, \h01, \h00, \h00, \h00, \h00, \h00, \h00>>),   \* 281474976710656
      Bytes(<<\hff, \hff, \hff, \hff, \h00, \h00, \h00, \h00>>),   \* -4294967296
      Bytes(<<\hff, \hff, \h00, \h00, \h00, \h00, \h00, \h00>>),   \* -281474976710656
      Bytes(<<\h01, \h00, \h00, \h00, \h00, \h00, \h00, \h00>>),   \* 72057594037927936
      Bytes(<<\hff, \h00, \h00, \h00, \h00, \h00, \h00, \h25>>),   \* -72057594037927899
      Bytes(<<\h00, \h00, \h00, \h00, \h00, \h00, \h00, \hff>>),   \* 255
      Bytes(<<\h00, \h00, \h00, \h00, \h00, \h00, \h01, \h00>>),   \* 256
      Bytes(<<\h00, \h00, \h00, \h00, \h00, \h00, \h64, \h00>>),   \* 25600
      Bytes(<<\hff, \hff, \hff, \hff, \hff, \hff, \h9c, \h00>>) }   \* -25600

InitTime ==
    /\ InitIdle
    /\ \E t \in TimeEdges :
          conv = [op |-> "Time", done |-> FALSE, t |-> t, uuid |-> WZero(16),
                  unixNano |-> WZero(8)]

StartTime ==
    /\ calls < 1
    /\ calls' = calls + 1
    /\ Begin(1, "New", WZero(4))

\* uuid1.Time().UnixNano() of the identifier New returned
CallTime ==
    /\ conv.op = "Time"
    /\ ~conv.done
    /\ ret.fn = "New"
    /\ conv' = [conv EXCEPT !.done = TRUE, !.uuid = ret.uuid,
                            !.unixNano = UnixNano(Time(ret.uuid))]
    /\ UNCHANGED <<generator, probe>>

NextTime ==
    \/ /\ UNCHANGED <<marked, probe, conv, source>>
       /\ \/ StartTime
          \/ Lock(1)
          \/ \E r \in PrngVals : NewLocked(1, r)
          \/ GenReturn(1, conv.t)
    \/ CallTime

SpecTime == InitTime /\ [][NextTime]_vars

(***************************************************************************)
(* Text.  A Go string is the sequence of its bytes: "-" is 45, "0".."9"    *)
(* are 48..57, "A".."F" are 65..70, "a".."f" are 97..102, the double quote *)
(* is 34 and the backslash 92.                                             *)
(***************************************************************************)
\* encoding/hex: const hextable = "0123456789abcdef"
hextable == <<48, 49, 50, 51, 52, 53, 54, 55, 56, 57, 97, 98, 99, 100, 101, 102>>

\* mutant of EncodeToString: the low nibble is written first
EncodeToStringSwapped(src) ==
    [k \in 1..(2 * WLen(src)) |->
        hextable[(IF k % 2 = 1 THEN src[(k - 1) \div 2] % 16
                  ELSE src[(k - 1) \div 2] \div 16) + 1]]

\* hex.EncodeToString: two characters for each byte, hextable[v>>4] and
\* hextable[v&0x0f]
EncodeToString(src) ==
    [k \in 1..(2 * WLen(src)) |->
        hextable[(IF k % 2 = 1 THEN src[(k - 1) \div 2] \div 16
                  ELSE src[(k - 1) \div 2] % 16) + 1]]

\* encoding/hex fromHexChar: the value of a hexadecimal character
fromHexChar(c) ==
    IF 48 <= c /\ c <= 57 THEN [v |-> c - 48, ok |-> TRUE]
    ELSE IF 97 <= c /\ c <= 102 THEN [v |-> c - 97 + 10, ok |-> TRUE]
    ELSE IF 65 <= c /\ c <= 70 THEN [v |-> c - 65 + 10, ok |-> TRUE]
    ELSE [v |-> 0, ok |-> FALSE]

\* hex.DecodedLen(x)
DecodedLen(x) == x \div 2

\* mutant of DecodeString: a last character without a pair is dropped silently
DecodeStringAnyLength(s) ==
    LET n == Len(s) \div 2
        ok == \A k \in 1..(2 * n) : fromHexChar(s[k]).ok
    IN  [ok |-> ok,
         bytes |-> IF ok
                   THEN [i \in 0..(n - 1) |->
                            fromHexChar(s[2 * i + 1]).v * 16 + fromHexChar(s[2 * i + 2]).v]
                   ELSE <<>>]

\* hex.DecodeString: an error for a character that is no hexadecimal digit
\* and for an odd length, else the byte of each pair of characters (what it
\* returns beside an error is dropped by its caller)
DecodeString(s) ==
    LET n == Len(s) \div 2
        ok == Len(s) % 2 = 0 /\ \A k \in 1..Len(s) : fromHexChar(s[k]).ok
    IN  [ok |-> ok,
         bytes |-> IF ok
                   THEN [i \in 0..(n - 1) |->
                            fromHexChar(s[2 * i + 1]).v * 16 + fromHexChar(s[2 * i + 2]).v]
                   ELSE <<>>]

\* strings.Replace(s, "-", "", -1)
ReplaceDashes(s) == SelectSeq(s, LAMBDA c : c # 45)

\* a nil slice, as a value: no bytes
nilBytes == <<>>

\* NewFromString(s): the identifier (its 16 bytes, or nil) and the error
NewFromString(s) ==
    LET digits == ReplaceDashes(s)
    IN  IF DecodedLen(Len(digits)) # 16
        THEN [uuid |-> nilBytes, err |-> TRUE]
        ELSE LET d == DecodeString(digits)
             IN  IF ~d.ok THEN [uuid |-> nilBytes, err |-> TRUE]
                 ELSE [uuid |-> d.bytes, err |-> FALSE]

\* UUID.Hex
Hex(u) == EncodeToString(u)

\* UUID.String: h[0:8] + "-" + h[8:12] + "-" + h[12:16] + "-" + h[16:20] + "-" + h[20:32]
String(u) ==
    LET h == Hex(u)
    IN  SubSeq(h, 1, 8) \o <<45>> \o SubSeq(h, 9, 12) \o <<45>> \o SubSeq(h, 13, 16)
        \o <<45>> \o SubSeq(h, 17, 20) \o <<45>> \o SubSeq(h, 21, 32)

\* s with c put in after its first i characters, without its i-th character,
\* and with c in the place of its i-th character
InsertAt(s, i, c) == SubSeq(s, 1, i) \o <<c>> \o SubSeq(s, i + 1, Len(s))
DeleteAt(s, i) == SubSeq(s, 1, i - 1) \o SubSeq(s, i + 1, Len(s))
SetAt(s, i, c) == [s EXCEPT ![i] = c]

\* n times the character c
Repeat(c, n) == [k \in 1..n |-> c]

(***************************************************************************)
(* SpecText: NewFromString applied to a string.                            *)
(***************************************************************************)
TextUUIDs ==
    { TestUUID, WZero(16), [i \in 0..15 |-> 255], [i \in 0..15 |-> 16 * i + 15 - i] }

\* the characters next to the ranges of the hexadecimal digits, the dash,
\* the space and "z"
EdgeChars == {32, 45, 47, 48, 57, 58, 64, 65, 70, 71, 96, 97, 102, 103, 122}

TextArgs ==
    UNION { {String(u), Hex(u)}
            \cup {[k \in 1..32 |-> IF Hex(u)[k] >= 97 THEN Hex(u)[k] - 32 ELSE Hex(u)[k]]}
            \cup {InsertAt(String(u), i, 45) : i \in {0, 1, 9, 36}}
            \cup {InsertAt(InsertAt(String(u), 0, 45), 0, 45)}
            \cup {SetAt(String(u), i, c) : i \in {1, 2, 9, 20, 36}, c \in EdgeChars}
            \cup {InsertAt(Hex(u), i, c) : i \in {0, 32}, c \in EdgeChars}
            \cup {DeleteAt(Hex(u), i) : i \in {1, 32}}
            \cup {Hex(u) \o <<c, d>> : c \in {48, 102}, d \in {48, 122}}
          : u \in TextUUIDs }
    \cup { <<>>, Repeat(48, 4), Repeat(48, 41), Repeat(45, 40),
           Repeat(48, 4) \o Repeat(45, 24) \o Repeat(48, 4),
           <<45>> \o [k \in 1..64 |-> IF k % 2 = 1 THEN 48 ELSE 45] \o <<45>> }

InitText ==
    /\ InitIdle
    /\ \E s \in TextArgs :
          conv = [op |-> "NewFromString", done |-> FALSE, s |-> s, uuid |-> nilBytes,
                  err |-> FALSE]

CallNewFromString ==
    /\ conv.op = "NewFromString"
    /\ ~conv.done
    /\ LET r == NewFromString(conv.s)
       IN  conv' = [conv EXCEPT !.done = TRUE, !.uuid = r.uuid, !.err = r.err]
    /\ UNCHANGED <<generator, probe>>

NextText == CallNewFromString

SpecText == InitText /\ [][NextText]_vars

(***************************************************************************)
(* SpecFormat: an identifier is formatted with String and Hex, and the two *)
(* texts are parsed back with NewFromString.                               *)
(***************************************************************************)
FormatBytes == {\h00, \h09, \h0a, \h5f, \ha0, \hff}

FormatUUIDs ==
    { TestUUID, WZero(16), [i \in 0..15 |-> 255] }
    \cup { [TestUUID EXCEPT ![i] = v] : i \in 0..15, v \in FormatBytes }

\* uuidString of src/uuid_test.go: "f254df4a-184c-1019-80a4-c61cd00a6899"
uuidString ==
    <<102, 50, 53, 52, 100, 102, 52, 97, 45, 49, 56, 52, 99, 45, 49, 48, 49, 57, 45,
      56, 48, 97, 52, 45, 99, 54, 49, 99, 100, 48, 48, 97, 54, 56, 57, 57>>

InitFormat ==
    /\ InitIdle
    /\ \E x \in FormatUUIDs :
          conv = [op |-> "String", stage |-> "start", x |-> x, text |-> <<>>,
                  hex |-> <<>>,
                  fromText |-> [uuid |-> nilBytes, err |-> FALSE],
                  fromHex |-> [uuid |-> nilBytes, err |-> FALSE]]

\* x.String() and x.Hex()
CallString ==
    /\ conv.op = "String"
    /\ conv.stage = "start"
    /\ conv' = [conv EXCEPT !.stage = "text", !.text = String(conv.x),
                            !.hex = Hex(conv.x)]
    /\ UNCHANGED <<generator, probe>>

\* NewFromString of either text
CallParse ==
    /\ conv.op = "String"
    /\ conv.stage = "text"
    /\ conv' = [conv EXCEPT !.stage = "done", !.fromText = NewFromString(conv.text),
                            !.fromHex = NewFromString(conv.hex)]
    /\ UNCHANGED <<generator, probe>>

NextFormat == CallString \/ CallParse

SpecFormat == InitFormat /\ [][NextFormat]_vars

(***************************************************************************)
(* SpecJSON: an identifier is marshalled, the JSON text is left as it is   *)
(* or altered, and unmarshalled into a receiver.                           *)
(***************************************************************************)
\* the white space of JSON: space, tab, line feed, carriage return
IsSpace(c) == c \in {32, 9, 10, 13}

\* b without the white space around it
RECURSIVE TrimSpace(_)
TrimSpace(b) ==
    IF b = <<>> THEN b
    ELSE IF IsSpace(b[1]) THEN TrimSpace(SubSeq(b, 2, Len(b)))
    ELSE IF IsSpace(b[Len(b)]) THEN TrimSpace(SubSeq(b, 1, Len(b) - 1))
    ELSE b

\* the UTF-8 bytes of a code point below 2^16, a surrogate giving U+FFFD
utf8(cp) ==
    IF cp < 128 THEN <<cp>>
    ELSE IF cp < 2048 THEN <<192 + (cp \div 64), 128 + (cp % 64)>>
    ELSE IF cp >= 55296 /\ cp < 57344 THEN <<239, 191, 189>>
    ELSE <<224 + (cp \div 4096), 128 + ((cp \div 64) % 64), 128 + (cp % 64)>>

\* the characters of a JSON string literal's inside s, from its k-th on: no
\* quote and no control character, a backslash starting one of the escapes
\* \" \\ \/ \b \f \n \r \t \uXXXX
RECURSIVE unquote(_, _)
unquote(s, k) ==
    IF k > Len(s) THEN [ok |-> TRUE, out |-> <<>>]
    ELSE IF s[k] = 34 \/ s[k] < 32 THEN [ok |-> FALSE, out |-> <<>>]
    ELSE IF s[k] # 92
         THEN LET rest == unquote(s, k + 1)
              IN  [ok |-> rest.ok, out |-> <<s[k]>> \o rest.out]
    ELSE IF k = Len(s) THEN [ok |-> FALSE, out |-> <<>>]
    ELSE IF s[k + 1] = 117
         THEN IF k + 5 > Len(s) \/ \E j \in 2..5 : ~fromHexChar(s[k + j]).ok
              THEN [ok |-> FALSE, out |-> <<>>]
              ELSE LET cp == fromHexChar(s[k + 2]).v * 4096 + fromHexChar(s[k + 3]).v * 256
                             + fromHexChar(s[k + 4]).v * 16 + fromHexChar(s[k + 5]).v
                       rest == unquote(s, k + 6)
                   IN  [ok |-> rest.ok, out |-> utf8(cp) \o rest.out]
    ELSE LET e == s[k + 1]
             c == IF e \in {34, 92, 47} THEN e
                  ELSE IF e = 98 THEN 8
                  ELSE IF e = 102 THEN 12
                  ELSE IF e = 110 THEN 10
                  ELSE IF e = 114 THEN 13
                  ELSE IF e = 116 THEN 9
                  ELSE -1
             rest == unquote(s, k + 2)
         IN  IF c < 0 THEN [ok |-> FALSE, out |-> <<>>]
             ELSE [ok |-> rest.ok, out |-> <<c>> \o rest.out]

\* json.Unmarshal(b, &field) for a string variable field: a string literal
\* sets it, null leaves it, any other text is an error
jsonUnmarshal(b, field) ==
    LET t == TrimSpace(b)
    IN  IF t = <<110, 117, 108, 108>> THEN [err |-> FALSE, field |-> field]
        ELSE IF Len(t) >= 2 /\ t[1] = 34 /\ t[Len(t)] = 34
             THEN LET u == unquote(SubSeq(t, 2, Len(t) - 1), 1)
                  IN  IF u.ok THEN [err |-> FALSE, field |-> u.out]
                      ELSE [err |-> TRUE, field |-> field]
        ELSE [err |-> TRUE, field |-> field]

\* UUID.MarshalJSON: []byte(`"` + u.String() + `"`)
MarshalJSON(u) == <<34>> \o String(u) \o <<34>>

\* mutant of UnmarshalJSON: the receiver is assigned before the error is tested
UnmarshalJSONAssignsFirst(u, b) ==
    LET j == jsonUnmarshal(b, <<>>)
    IN  IF j.err THEN [u |-> u, err |-> TRUE]
        ELSE LET r == NewFromString(j.field)
             IN  [u |-> r.uuid, err |-> r.err]

\* UUID.UnmarshalJSON on the receiver *u: the receiver afterwards, and the error
UnmarshalJSON(u, b) ==
    LET j == jsonUnmarshal(b, <<>>)
    IN  IF j.err THEN [u |-> u, err |-> TRUE]
        ELSE LET r == NewFromString(j.field)
             IN  IF r.err THEN [u |-> u, err |-> TRUE]
                 ELSE [u |-> r.uuid, err |-> FALSE]

JSONUUIDs == { TestUUID, WZero(16), [i \in 0..15 |-> 16 * i + 15 - i] }

\* the receiver before the call: nil or an identifier
Receivers == { nilBytes, [i \in 0..15 |-> 255 - i] }

\* alterations of a marshalled text that leave it the JSON form of the same
\* identifier, and alterations that do not
GoodKinds == {"intact", "spaces", "escaped", "nodash"}

BadKinds ==
    {"noclose", "noopen", "unquoted", "null", "number", "empty", "nothing",
     "badhex", "short", "long", "ctrl", "badesc", "dangling", "shortesc"}

\* the escape \u00XX of the character c < 256
Escape(c) == <<92, 117, 48, 48, hextable[(c \div 16) + 1], hextable[(c % 16) + 1]>>

Alter(b, kind) ==
    CASE kind = "intact" -> b
      [] kind = "spaces" -> <<32, 10>> \o b \o <<9, 13, 32>>
      [] kind = "escaped" -> SubSeq(b, 1, 1) \o Escape(b[2]) \o SubSeq(b, 3, Len(b))
      [] kind = "nodash" -> ReplaceDashes(b)
      [] kind = "noclose" -> SubSeq(b, 1, Len(b) - 1)
      [] kind = "noopen" -> SubSeq(b, 2, Len(b))
      [] kind = "unquoted" -> SubSeq(b, 2, Len(b) - 1)
      [] kind = "null" -> <<110, 117, 108, 108>>
      [] kind = "number" -> <<49, 50>>
      [] kind = "empty" -> <<34, 34>>
      [] kind = "nothing" -> <<>>
      [] kind = "badhex" -> SetAt(b, 18, 122)
      [] kind = "short" -> DeleteAt(b, 2)
      [] kind = "long" -> InsertAt(b, 1, 48)
      [] kind = "ctrl" -> InsertAt(b, 10, 10)
      [] kind = "badesc" -> InsertAt(InsertAt(b, 10, 92), 11, 120)
      [] kind = "dangling" -> InsertAt(b, Len(b) - 1, 92)
      [] kind = "shortesc" -> SubSeq(b, 1, Len(b) - 1) \o <<92, 117, 48, 48, 34>>

InitJSON ==
    /\ InitIdle
    /\ \E x \in JSONUUIDs, u \in Receivers :
          conv = [op |-> "JSON", stage |-> "start", x |-> x, recv |-> u, u |-> u,
                  b |-> <<>>, kind |-> "none", err |-> FALSE]

\* b, err := x.MarshalJSON()
CallMarshalJSON ==
    /\ conv.op = "JSON"
    /\ conv.stage = "start"
    /\ conv' = [conv EXCEPT !.stage = "text", !.b = MarshalJSON(conv.x),
                            !.kind = "intact"]
    /\ UNCHANGED <<generator, probe>>

\* the text is altered on its way
AlterText(kind) ==
    /\ conv.op = "JSON"
    /\ conv.stage = "text"
    /\ conv.kind = "intact"
    /\ kind # "intact"
    /\ conv' = [conv EXCEPT !.b = Alter(conv.b, kind), !.kind = kind]
    /\ UNCHANGED <<generator, probe>>

\* err := u.UnmarshalJSON(b)
CallUnmarshalJSON ==
    /\ conv.op = "JSON"
    /\ conv.stage = "text"
    /\ LET r == UnmarshalJSON(conv.u, conv.b)
       IN  conv' = [conv EXCEPT !.stage = "done", !.u = r.u, !.err = r.err]
    /\ UNCHANGED <<generator, probe>>

NextJSON ==
    \/ CallMarshalJSON
    \/ \E kind \in GoodKinds \cup BadKinds : AlterText(kind)
    \/ CallUnmarshalJSON

SpecJSON == InitJSON /\ [][NextJSON]_vars

(***************************************************************************)
(* Properties.                                                             *)
(***************************************************************************)
Generators == {"New", "NewCrypto"}

\* v < 2^30, for a uint32 v
Below30(v) == v[0] < 64

\* v mod 2^30, for a uint32 v
Low30(v) == [v EXCEPT ![0] = @ % 64]

\* the 13-bit clock sequence field of bytes 8..15 of an identifier
ClockSeqField(tail) == (tail[0] % 32) * 256 + tail[1]

\* bytes 8..15 of an identifier
NodeTail(u) == Slice(u, 8, 16)

\* C1: after SetNodeId(v) with v < 2^30, as long as no other SetNodeId has
\* updated the state, the packed state holds v as its instance id, NodeId()
\* returns v and every identifier New or NewCrypto returns has NodeId() = v,
\* whatever generator calls came in between.
C1_InstanceIdPersists ==
    /\ (lastSet.set /\ Below30(lastSet.v))
          => NodeIdBits(NodeIdRead(clockSeqAndNode)) = lastSet.v
    /\ (ret.fn = "NodeId" /\ ret.inForce.set /\ Below30(ret.inForce.v))
          => ret.nodeId = ret.inForce.v
    /\ (ret.fn \in Generators /\ ret.inForce.set /\ Below30(ret.inForce.v))
          => UUIDNodeId(ret.uuid) = ret.inForce.v

\* SetNodeId(0x3fffffff), then New, then NewCrypto, whose identifier carries it
C1_Witness ==
    /\ ret.fn = "NewCrypto"
    /\ ret.prev.fn = "New"
    /\ ret.inForce.set
    /\ ret.inForce.v = Bytes(<<\h3f, \hff, \hff, \hff>>)
    /\ UUIDNodeId(ret.uuid) = ret.inForce.v
    /\ UUIDNodeId(PutAt(WZero(16), 8, ret.prev.tail)) = ret.inForce.v

\* C2: SetNodeId(v) returns an error exactly when bit 30 or bit 31 of v is
\* set, and applies v mod 2^30 in either case: NodeId() then returns
\* v mod 2^30.
C2_TruncatedSetNodeId ==
    /\ ret.fn = "SetNodeId" => (ret.err <=> ret.nodeId[0] >= 64)
    /\ lastSet.set => NodeIdBits(NodeIdRead(clockSeqAndNode)) = Low30(lastSet.v)
    /\ (ret.fn = "NodeId" /\ ret.inForce.set) => ret.nodeId = Low30(ret.inForce.v)

\* NodeId() has returned after a SetNodeId whose argument has bit 31 set
C2_Witness ==
    /\ ret.fn = "NodeId"
    /\ ret.inForce.set
    /\ ret.inForce.v = Bytes(<<\h95, \haa, \h3c, \hf0>>)
    /\ ret.nodeId = Bytes(<<\h15, \haa, \h3c, \hf0>>)

\* C3: every identifier New or NewCrypto returns has Version() = 1 and
\* Variant() = 1.
C3_VersionVariantOne ==
    ret.fn \in Generators => (Version(ret.uuid) = 1 /\ Variant(ret.uuid) = 1)

\* NewCrypto has returned after a SetNodeId and a New
C3_Witness ==
    /\ ret.fn = "NewCrypto"
    /\ ret.inForce.set
    /\ ret.prev.fn = "New"
    /\ Version(ret.uuid) = 1
    /\ Variant(ret.uuid) = 1

\* C5: a New whose locked section is the first generator section after
\* another New's returns bytes 8..15 other than that New's, hence another
\* identifier whatever the two clock readings are: its clock sequence field is
\* the other's plus 1 modulo 8192.
C5_ConsecutiveNewDiffer ==
    (ret.fn = "New" /\ ret.prev.fn = "New")
        => /\ NodeTail(ret.uuid) # ret.prev.tail
           /\ ClockSeqField(NodeTail(ret.uuid))
                = (ClockSeqField(ret.prev.tail) + 1) % ClockSeqPeriod

\* two New calls in a row, the clock sequence wrapping from 8191 to 0
C5_Witness ==
    /\ ret.fn = "New"
    /\ ret.prev.fn = "New"
    /\ ClockSeqField(ret.prev.tail) = ClockSeqPeriod - 1
    /\ ClockSeqField(NodeTail(ret.uuid)) = 0

\* C7: the 'local' and 'multicast' bits (the two least significant bits of
\* the node identifier's first byte) are 1 in the packed state, in every
\* state, and in byte 10 of every identifier New or NewCrypto returns.
C7_LocalMulticastSet ==
    /\ BitAnd(clockSeqAndNode[2], 3) = 3
    /\ ret.fn \in Generators => BitAnd(ret.uuid[10], 3) = 3

\* an identifier returned after a SetNodeId that cleared the 6 bits above them
C7_Witness ==
    /\ ret.fn \in Generators
    /\ ret.inForce.set
    /\ ret.inForce.v = Bytes(<<\h95, \haa, \h3c, \hf0>>)
    /\ ret.uuid[10] = \h57

\* C8 as claimed: byte 8 of every identifier New or NewCrypto returns has
\* 1 then 0 as its two most significant bits.
C8_Claimed == ret.fn \in Generators => ret.uuid[8] \div 64 = 2

C6_NeverPanics ==
    /\ ~panicked
    /\ \A p \in Callers : pc[p] # "panic"
    /\ ret.fn \in Generators => DOMAIN ret.uuid = 0..15
    /\ lastGen.fn = "NewCrypto" =>
          /\ lastGen.at >= 0
          /\ lastGen.at + 4 <= randBufCap
          /\ lastGen.at = (IF lastGen.off + lastGen.n < 4 THEN 0
                           ELSE lastGen.off + lastGen.n - 4)
          /\ ClockSeqField(lastGen.tail)
                = (randBuf[lastGen.at] % 32) * 256 + randBuf[lastGen.at + 1]
          /\ lastGen.tail[6] = randBuf[lastGen.at + 2]
          /\ lastGen.tail[7] = randBuf[lastGen.at + 3]

\* a read of 1 to 3 bytes near the end of the pool: the 4 bytes are taken
\* before the cursor's position, the cursor wraps to 0, an identifier returns
C6_Witness ==
    /\ ret.fn = "NewCrypto"
    /\ pc[1] = "idle"
    /\ lastGen.fn = "NewCrypto"
    /\ lastGen.n \in 1..3
    /\ lastGen.at < lastGen.off
    /\ lastGen.at + 4 > randBufCap - 4
    /\ randBufOffset = 0
    /\ NodeTail(ret.uuid) = lastGen.tail

\* C9 as claimed: Variant() returns the RFC 4122 code of the top 3 bits of
\* byte 8: 0 for 0xx, 1 for 10x, 2 for 110, 3 for 111.
C9_Claimed ==
    probe.set =>
        probe.variant = (IF probe.uuid[8] < 128 THEN 0
                         ELSE IF probe.uuid[8] < 192 THEN 1
                         ELSE IF probe.uuid[8] < 224 THEN 2
                         ELSE 3)

\* C9 as amended: Variant() returns the top 3 bits of byte 8 as a number, not
\* the code of the RFC 4122 table: 0 to 3 for 0xx, 4 or 5 for 10x, 6 for 110,
\* 7 for 111; f254df4a-184c-1019-80a4-c61cd00a6899 reports 4.
C9_VariantRawBits ==
    probe.set =>
        /\ probe.uuid[8] < 128 => probe.variant \in 0..3
        /\ probe.uuid[8] \in 128..191 => probe.variant \in {4, 5}
        /\ probe.uuid[8] \in 192..223 => probe.variant = 6
        /\ probe.uuid[8] >= 224 => probe.variant = 7
        /\ probe.uuid = TestUUID => probe.variant = 4

\* Variant() of f254df4a-184c-1019-80a4-c61cd00a6899 has returned 4
C9_Witness == probe.set /\ probe.uuid = TestUUID /\ probe.variant = 4

\* C10: Variant() is the number made of the three most significant bits of
\* byte 8, in 0..7, and Version() the number made of the four most
\* significant bits of byte 6, in 0..15; byte 6 = 0x10 and byte 8 = 0x80 give
\* version 1 and variant 4.
C10_TopBits ==
    probe.set =>
        /\ probe.variant = probe.uuid[8] \div 32
        /\ probe.version = probe.uuid[6] \div 16
        /\ probe.variant \in 0..7
        /\ probe.version \in 0..15
        /\ (probe.uuid[6] = \h10 /\ probe.uuid[8] = \h80)
              => (probe.version = 1 /\ probe.variant = 4)

\* the accessors applied to an identifier with byte 6 = 0x10, byte 8 = 0x80
C10_Witness ==
    /\ probe.set
    /\ probe.uuid[6] = \h10
    /\ probe.uuid[8] = \h80
    /\ probe.version = 1
    /\ probe.variant = 4

\* caller p runs the locked section of fn in this step
LockedStep(p, fn) == pc[p] = "locked" /\ frame[p].fn = fn /\ pc'[p] = "unlocked"

\* the low 16 node bits of a packed state
NodeLow(csan) == csan[6] * 256 + csan[7]

\* C11: each New sets the clock sequence to the previous one plus 1 modulo
\* 8192, whatever left the previous one; it replaces the low 16 node bits by a
\* value of the PRNG when the new clock sequence is 0 and leaves them as they
\* are otherwise; the packed state carries both.
C11_NewAdvances ==
    [][\A p \in Callers :
          LockedStep(p, "New") =>
              /\ clockSeq' = (clockSeq + 1) % ClockSeqPeriod
              /\ clockSeq' # 0 => nodeRand' = nodeRand
              /\ clockSeq' = 0 => nodeRand' \in PrngVals
              /\ ClockSeqField(clockSeqAndNode') = clockSeq'
              /\ NodeLow(clockSeqAndNode') = nodeRand'
              /\ ClockSeqField(clockSeqAndNode) = clockSeq
              /\ NodeLow(clockSeqAndNode) = nodeRand]_vars

\* New has returned an identifier with clock sequence 0 and the low 16 node
\* bits the PRNG gave, after a New that kept the ones init had drawn
C11_Witness ==
    /\ ret.fn = "New"
    /\ lastGen.fn = "New"
    /\ lastGen.tail = NodeTail(ret.uuid)
    /\ clockSeq = 0
    /\ nodeRand = \hbeef
    /\ NodeLow(NodeTail(ret.uuid)) = \hbeef
    /\ ret.prev.fn = "New"
    /\ NodeLow(ret.prev.tail) = \h1234

\* C12: each NewCrypto takes the clock sequence and the low 16 node bits from
\* the 4 pool bytes at the cursor as the read left it (moved back by the bytes
\* the read did not deliver, not below 0): the clock sequence is the low 13
\* bits of the first two bytes, the node low part the last two, whatever they
\* were before; when the read delivers 4 bytes these are the cursor's 4 bytes
\* just read.
C12_CryptoReplaces ==
    [][\A p \in Callers :
          LockedStep(p, "NewCrypto") =>
              LET n == lastGen'.n
                  at == lastGen'.at
              IN  /\ lastGen'.off = randBufOffset
                  /\ at = (IF randBufOffset + n < 4 THEN 0 ELSE randBufOffset + n - 4)
                  /\ clockSeq' = (randBuf'[at] % 32) * 256 + randBuf'[at + 1]
                  /\ nodeRand' = randBuf'[at + 2] * 256 + randBuf'[at + 3]
                  /\ ClockSeqField(clockSeqAndNode') = clockSeq'
                  /\ NodeLow(clockSeqAndNode') = nodeRand'
                  /\ \E rd \in CryptoReads :
                        /\ Len(rd) = n
                        /\ randBuf' = PutAt(randBuf, randBufOffset, Bytes(rd))
                        /\ n = 4 => /\ at = randBufOffset
                                    /\ Slice(randBuf', at, at + 4) = Bytes(rd)]_vars

\* NewCrypto, its read delivering 1f fe be ef, has returned after a New
C12_Witness ==
    /\ ret.fn = "NewCrypto"
    /\ ret.prev.fn = "New"
    /\ lastGen.fn = "NewCrypto"
    /\ lastGen.n = 4
    /\ lastGen.tail = NodeTail(ret.uuid)
    /\ clockSeq = \h1ffe
    /\ nodeRand = \hbeef
    /\ randBufOffset = lastGen.off + 4

C19_SetNodeIdFrame ==
    [][\A p \in Callers :
          /\ LockedStep(p, "SetNodeId") =>
                /\ Slice(clockSeqAndNode', 0, 2) = Slice(clockSeqAndNode, 0, 2)
                /\ Slice(clockSeqAndNode', 6, 8) = Slice(clockSeqAndNode, 6, 8)
                /\ BitAnd(clockSeqAndNode'[2], 3) = BitAnd(clockSeqAndNode[2], 3)
                /\ UNCHANGED <<clockSeq, nodeRand, randBuf, randBufOffset>>
          /\ (pc[p] = "unlocked" /\ frame[p].fn = "SetNodeId" /\ pc'[p] = "idle")
                => UNCHANGED shared]_vars

\* SetNodeId(0x95aa3cf0) has returned its error after a NewCrypto: the packed
\* state is the one NewCrypto left but for the instance id bits
C19_Witness ==
    /\ ret.fn = "SetNodeId"
    /\ ret.err
    /\ lastSet.v = Bytes(<<\h95, \haa, \h3c, \hf0>>)
    /\ ret.nodeId = lastSet.v
    /\ lastGen.fn = "NewCrypto"
    /\ clockSeqAndNode # lastGen.tail
    /\ Slice(clockSeqAndNode, 0, 2) = Slice(lastGen.tail, 0, 2)
    /\ Slice(clockSeqAndNode, 6, 8) = Slice(lastGen.tail, 6, 8)
    /\ clockSeqAndNode[2] = \h57

\* bits 46:17 of a packed state, as a uint32
Bits46to17(csan) ==
    WConv(WAnd(WShr(csan, 17), Bytes(<<0, 0, 0, 0, \h3f, \hff, \hff, \hff>>)), 4)

\* bits 47:42 followed by bits 39:16 of a packed state, as a uint32
InstanceBits(csan) == Bytes(<<csan[2] \div 4, csan[3], csan[4], csan[5]>>)

\* C20 as claimed: after SetNodeId(v), bits 46:17 of the packed state are the
\* low 30 bits of v.
C20_Claimed ==
    lastSet.set => Bits46to17(clockSeqAndNode) = Low30(lastSet.v)

\* C20 as amended: SetNodeId(v) stores bits 29:24 of v in bits 47:42 of the
\* packed state and bits 23:0 of v in bits 39:16, on either side of the
\* 'local' and 'multicast' bits 41:40; NodeId() reads the instance id from
\* these bits of the packed state and UUID.NodeId() from these bits of bytes
\* 8..15.
C20_SplitField ==
    /\ lastSet.set => InstanceBits(clockSeqAndNode) = Low30(lastSet.v)
    /\ NodeIdBits(NodeIdRead(clockSeqAndNode)) = InstanceBits(clockSeqAndNode)
    /\ ret.fn \in Generators => UUIDNodeId(ret.uuid) = InstanceBits(NodeTail(ret.uuid))

\* NodeId() has returned 0x2a55c30f after SetNodeId(0x6a55c30f): byte 10 of
\* the packed state is 0xab, and bits 46:17 hold another value
C20_Witness ==
    /\ lastSet.set
    /\ lastSet.v = Bytes(<<\h6a, \h55, \hc3, \h0f>>)
    /\ ret.fn = "NodeId"
    /\ ret.inForce = lastSet
    /\ ret.nodeId = Bytes(<<\h2a, \h55, \hc3, \h0f>>)
    /\ Slice(clockSeqAndNode, 2, 6) = Bytes(<<\hab, \h55, \hc3, \h0f>>)
    /\ Bits46to17(clockSeqAndNode) # ret.nodeId

\* C14: NewFromBytes(b) returns an error and no identifier when len(b) is not
\* 16; when it is 16 it returns no error and an identifier whose 16 bytes are
\* those of b, held in an array of its own: a write through b afterwards
\* leaves the identifier's bytes as they were, and a write through the
\* identifier leaves b's.
C14_NewFromBytesCopies ==
    (conv.op = "NewFromBytes" /\ conv.done) =>
        /\ conv.err <=> WLen(conv.arg) # 16
        /\ conv.err <=> conv.uuid = nil
        /\ ~conv.err =>
              /\ conv.uuid # conv.b
              /\ DOMAIN conv.heap[conv.uuid] = 0..15
              /\ ~conv.wroteUuid => conv.heap[conv.uuid] = conv.arg
              /\ ~conv.wroteB => conv.heap[conv.b] = conv.arg

\* the test's uuid has been copied, then b[0] overwritten: the identifier
\* still holds f2 in byte 0
C14_Witness ==
    /\ conv.op = "NewFromBytes"
    /\ conv.done
    /\ ~conv.err
    /\ conv.arg = TestUUID
    /\ conv.wroteB
    /\ ~conv.wroteUuid
    /\ conv.heap[conv.b][0] = \h5a
    /\ conv.heap[conv.uuid] = TestUUID

\* C17: for a clock reading t, the Gregorian tick count t/100 + gregorianEpoch
\* is not negative and below 2^60, bytes 0..7 of New's identifier hold it
\* under the version nibble, and Time().UnixNano() of the identifier is
\* toUnixNano(fromUnixNano(t)), which is (t / 100) * 100, the division
\* truncating toward zero: t less a remainder of 0 to 99 of the sign of t.
C17_TimeRoundTrip ==
    (conv.op = "Time" /\ conv.done) =>
        LET ts == fromUnixNano(conv.t)
            rem == WInt(WSub(conv.t, conv.unixNano))
        IN  /\ ts[0] < 16
            /\ Slice(conv.uuid, 0, 4) = Slice(ts, 4, 8)
            /\ Slice(conv.uuid, 4, 6) = Slice(ts, 2, 4)
            /\ conv.uuid[6] = 16 + ts[0]
            /\ conv.uuid[7] = ts[1]
            /\ conv.unixNano = toUnixNano(ts)
            /\ conv.unixNano = WMul(WSDiv(conv.t, 100), 100)
            /\ WMul(WOfInt(rem, 8), 1) = WSub(conv.t, conv.unixNano)
            /\ IF conv.t[0] >= 128 THEN rem \in -99..0 ELSE rem \in 0..99

\* the clock read -101: Time().UnixNano() is -100
C17_Witness ==
    /\ conv.op = "Time"
    /\ conv.done
    /\ conv.t = WOfInt(-101, 8)
    /\ conv.unixNano = WOfInt(-100, 8)
    /\ Version(conv.uuid) = 1

\* the hexadecimal digits, of either case
HexDigits == (48..57) \cup (65..70) \cup (97..102)

\* the positions of s that hold another character than "-"
NotDashes(s) == {k \in DOMAIN s : s[k] # 45}

\* C15: NewFromString(s) returns an identifier of 16 bytes and no error when
\* the characters of s other than "-" are 32 in number and all hexadecimal
\* digits, wherever and however many the dashes are; in every other case, 33
\* digits included, it returns an error and no identifier.
C15_ParseAccepts ==
    (conv.op = "NewFromString" /\ conv.done) =>
        /\ ~conv.err <=> /\ Cardinality(NotDashes(conv.s)) = 32
                         /\ \A k \in NotDashes(conv.s) : conv.s[k] \in HexDigits
        /\ conv.err <=> conv.uuid = nilBytes
        /\ ~conv.err => DOMAIN conv.uuid = 0..15

\* 33 hexadecimal digits: the decoded length is 16, the decoding fails
C15_Witness ==
    /\ conv.op = "NewFromString"
    /\ conv.done
    /\ Cardinality(NotDashes(conv.s)) = 33
    /\ \A k \in NotDashes(conv.s) : conv.s[k] \in HexDigits
    /\ DecodedLen(33) = 16
    /\ conv.err
    /\ conv.uuid = nilBytes

\* the lowercase hexadecimal digit of a nibble
LowerHex(n) == IF n < 10 THEN 48 + n ELSE 97 + (n - 10)

\* the position, in the grouping 8-4-4-4-12, of the first character of byte i
GroupPos(i) ==
    2 * i + 1 + (IF i >= 10 THEN 4 ELSE IF i >= 8 THEN 3 ELSE IF i >= 6 THEN 2
                 ELSE IF i >= 4 THEN 1 ELSE 0)

\* C16: String() of a 16-byte identifier x is 36 characters, the two
\* lowercase hexadecimal digits of each byte in order with a dash after the
\* 4th, 6th, 8th and 10th byte, and Hex() is the same without the dashes;
\* NewFromString of either text returns no error and the bytes of x.
C16_FormatParse ==
    (conv.op = "String" /\ conv.stage # "start") =>
        /\ Len(conv.text) = 36
        /\ Len(conv.hex) = 32
        /\ \A k \in {9, 14, 19, 24} : conv.text[k] = 45
        /\ \A i \in 0..15 :
              /\ conv.text[GroupPos(i)] = LowerHex(conv.x[i] \div 16)
              /\ conv.text[GroupPos(i) + 1] = LowerHex(conv.x[i] % 16)
              /\ conv.hex[2 * i + 1] = LowerHex(conv.x[i] \div 16)
              /\ conv.hex[2 * i + 2] = LowerHex(conv.x[i] % 16)
        /\ conv.stage = "done" =>
              /\ ~conv.fromText.err
              /\ conv.fromText.uuid = conv.x
              /\ conv.fromHex = conv.fromText

\* the test's uuid has given "f254df4a-184c-1019-80a4-c61cd00a6899", and
\* this text has given the uuid back
C16_Witness ==
    /\ conv.op = "String"
    /\ conv.stage = "done"
    /\ conv.x = TestUUID
    /\ conv.text = uuidString
    /\ ~conv.fromText.err
    /\ conv.fromText.uuid = TestUUID
    /\ conv.fromHex.uuid = TestUUID

\* C18: UnmarshalJSON of the text MarshalJSON gave for x, the identifier's
\* String() between double quotes, returns no error and leaves x in the
\* receiver, as it does for another JSON spelling of the same string; when
\* the text is no JSON string, or a string NewFromString does not accept, it
\* returns an error and the receiver is what it was before the call.
C18_JSONRoundTrip ==
    /\ (conv.op = "JSON" /\ conv.stage # "start" /\ conv.kind = "intact")
          => /\ Len(conv.b) = 38
             /\ conv.b[1] = 34
             /\ conv.b[38] = 34
             /\ SubSeq(conv.b, 2, 37) = String(conv.x)
    /\ (conv.op = "JSON" /\ conv.stage = "done") =>
          /\ conv.err => conv.u = conv.recv
          /\ conv.kind \in GoodKinds => (~conv.err /\ conv.u = conv.x)
          /\ conv.kind \in BadKinds => (conv.err /\ conv.u = conv.recv)

\* a text made of the quoted String() with a "z" among the digits has been
\* refused, the receiver keeping the identifier it held
C18_Witness ==
    /\ conv.op = "JSON"
    /\ conv.stage = "done"
    /\ conv.kind = "badhex"
    /\ conv.x = TestUUID
    /\ conv.err
    /\ conv.recv # nilBytes
    /\ conv.u = conv.recv


\* the smaller and the larger of two integers
Min(a, b) == IF a < b THEN a ELSE b

\* C21: the pool cursor stays in 0..randBufCap-4 whatever number of bytes,
\* 0 to 4, each read delivers: so the slice at the cursor and the slice the
\* 4 bytes are taken from lie inside the pool; a short read moves the cursor
\* back by the number of missing bytes but not below 0, and after the 4 bytes
\* are taken the cursor is 4 further, or 0 as soon as that exceeds
\* randBufCap-4.
C21_CursorInPool ==
    /\ randBufOffset >= 0
    /\ randBufOffset <= randBufCap - 4
    /\ lastGen.fn = "NewCrypto" =>
          /\ lastGen.n \in 0..4
          /\ lastGen.off >= 0 /\ lastGen.off + 4 <= randBufCap
          /\ lastGen.at >= 0 /\ lastGen.at + 4 <= randBufCap
          /\ lastGen.off - lastGen.at = Min(4 - lastGen.n, lastGen.off)
          /\ randBufOffset = (IF lastGen.at + 4 <= randBufCap - 4
                              THEN lastGen.at + 4 ELSE 0)

\* a read that delivers nothing with the cursor at the last position of the
\* pool: the 4 bytes are taken 4 before it and the cursor is back at
\* randBufCap-4
C21_Witness ==
    /\ ret.fn = "NewCrypto"
    /\ pc[1] = "idle"
    /\ lastGen.fn = "NewCrypto"
    /\ lastGen.n = 0
    /\ lastGen.off = randBufCap - 4
    /\ lastGen.at = randBufCap - 8
    /\ randBufOffset = randBufCap - 4


\* C24 as claimed: NodeId() holds csanMutex in read mode: while a NodeId call
\* is in its locked section no SetNodeId, New or NewCrypto is in its own, and
\* another NodeId call that has reached its Lock is not made to wait.
C24_Claimed ==
    \A p \in Callers : \A q \in Callers \ {p} :
        (pc[p] = "locked" /\ frame[p].fn = "NodeId") =>
            /\ pc[q] = "locked" => frame[q].fn = "NodeId"
            /\ (pc[q] = "lock" /\ frame[q].fn = "NodeId") => ENABLED Lock(q)


\* C23 as claimed: after a run of NewCrypto calls the cryptographic source has
\* been read fewer times than identifiers were returned.
C23_Claimed ==
    (pc[1] = "idle" /\ source.ids > 0) => source.reads < source.ids

\* C23: NewCrypto reads the cryptographic source once in every call, wherever
\* the cursor is: the source has been read as many times as identifiers were
\* returned, once more while a call is between its read and its return.
C23_ReadEveryCall ==
    /\ pc[1] \in {"idle", "lock", "locked"} => source.reads = source.ids
    /\ pc[1] = "unlocked" => source.reads = source.ids + 1
    /\ source.ids + (IF pc[1] = "idle" THEN 0 ELSE 1) = calls
    /\ lastGen.fn = "NewCrypto" => source.reads > 0

\* 65 calls have returned, with full reads all, and the cursor has wrapped:
\* every one of them read the source, not only the one at the pool's end
C23_Witness ==
    /\ pc[1] = "idle"
    /\ ret.fn = "NewCrypto"
    /\ source.ids = 65
    /\ source.reads = 65
    /\ lastGen.n = 4
    /\ randBufOffset = 4


\* C22: whenever no caller holds csanMutex, clockSeq is bits 60:48 of
\* clockSeqAndNode and nodeRand is its bits 15:0, after init and after any
\* interleaving of SetNodeId, NodeId, New and NewCrypto calls.
C22_CountersAgree ==
    csanMutex = NoCaller =>
        /\ clockSeq = ClockSeqField(clockSeqAndNode)
        /\ nodeRand = NodeLow(clockSeqAndNode)

\* the lock is free after a New, a SetNodeId and a NewCrypto have each
\* updated the state, the NewCrypto last
C22_Witness ==
    /\ csanMutex = NoCaller
    /\ \A p \in Callers : pc[p] \in {"idle", "unlocked"}
    /\ ret.fn = "New"
    /\ lastSet.set
    /\ lastGen.fn = "NewCrypto"
    /\ \E p \in Callers : pc[p] = "unlocked" /\ frame[p].fn = "NewCrypto"
    /\ clockSeq = \h1ffe
    /\ nodeRand = \hbeef


\* the instance ids in force in a behaviour: the one init left and the low 30
\* bits of the arguments of SetNodeId
IdsInForce ==
    {InstanceBits(InitBuf(rd)) : rd \in InitReads} \cup {Low30(v) : v \in RaceArgs}

\* the instance id in force when the SetNodeId calls recorded in s were done
IdInForce(s) ==
    IF s.set THEN {Low30(s.v)} ELSE {InstanceBits(InitBuf(rd)) : rd \in InitReads}

\* C26: bytes 8..15 of a generated identifier are the packed state as the
\* call's own locked section left it: the clock sequence and the low 16 node
\* bits are the ones that call assigned, and the instance id is the one that
\* was in force in that section, whole, whatever SetNodeId, New and NewCrypto
\* calls run concurrently; the identifier returned keeps them.
C26_AtomicSnapshot ==
    /\ \A p \in Callers :
          (pc[p] = "unlocked" /\ frame[p].fn \in Generators) =>
              /\ ClockSeqField(NodeTail(frame[p].uuid)) = frame[p].seq
              /\ NodeLow(NodeTail(frame[p].uuid)) = frame[p].rnd
              /\ InstanceBits(NodeTail(frame[p].uuid)) \in IdInForce(frame[p].inForce)
    /\ ret.fn \in Generators =>
          /\ UUIDNodeId(ret.uuid) \in IdsInForce
          /\ UUIDNodeId(ret.uuid) \in IdInForce(ret.inForce)

\* a New has left its locked section under the initial instance id and has
\* not returned yet, while the other caller's SetNodeId and NewCrypto have
\* since changed the instance id, the clock sequence and the low node bits
C26_Witness ==
    /\ pc[1] = "unlocked"
    /\ frame[1].fn = "New"
    /\ ~frame[1].inForce.set
    /\ ret.fn = "SetNodeId"
    /\ lastSet.set
    /\ InstanceBits(clockSeqAndNode) # InstanceBits(NodeTail(frame[1].uuid))
    /\ pc[2] = "unlocked"
    /\ frame[2].fn = "NewCrypto"
    /\ frame[2].seq # frame[1].seq
    /\ frame[2].rnd # frame[1].rnd


\* C25: under fair scheduling every started call of SetNodeId, NodeId, New
\* and NewCrypto returns; a call takes csanMutex only from its Lock, holds it
\* only inside its locked section and has released it when it returns, so the
\* mutex is free whenever no call is in progress.
C25_EveryCallReturns ==
    /\ \A p \in Callers : (pc[p] # "idle") ~> (pc[p] = "idle")
    /\ [](\A p \in Callers : csanMutex = p <=> pc[p] \in {"locked", "bumped", "packed"})
    /\ []((\A p \in Callers : pc[p] = "idle") => csanMutex = NoCaller)
    /\ [][\A p \in Callers : (csanMutex' = p /\ csanMutex # p) => pc[p] = "lock"]_vars

\* a NodeId call waits for the mutex that a NewCrypto holds between its
\* assignments and its repack, the last call of the behaviour started
C25_Witness ==
    /\ pc[1] = "lock"
    /\ frame[1].fn = "NodeId"
    /\ csanMutex = 2
    /\ pc[2] = "bumped"
    /\ frame[2].fn = "NewCrypto"
    /\ ret.fn = "SetNodeId"
    /\ ret.err
    /\ calls = MaxStepCalls

====
